---- MODULE Spec2Model ----
(***************************************************************************)
(* Verification model of the S3 Vector Showcase (src/s3_vector):           *)
(*   - mm_index/batch/batch_processor.py   BatchProcessor                  *)
(*   - mm_index/validation.py              MetadataLimiter,                *)
(*                                         VectorDimensionManager          *)
(*   - s3_vector_ops.py                    create_vector_bucket / index,   *)
(*                                         ingest_vectors                  *)
(*   - cleanup.py                          AWSResourceCleanup, main        *)
(*   - mm_index/patterns                   PatternEngine, HybridPattern,   *)
(*                                         SummarizePattern                *)
(* Each component has its own specification (SpecBatch, SpecMeta, ...).    *)
(* The variables of the components a specification does not exercise are   *)
(* held at their idle values.                                              *)
(***************************************************************************)
EXTENDS Integers, Sequences, FiniteSets, TLC

VARIABLES
    \* ---- BatchProcessor (batch_processor.py) ----
    data_list,          \* input records; TRUE = the record raises in pattern_engine.process
    batch_size,         \* self.batch_size
    max_workers,        \* self.max_workers
    enable_parallel,    \* self.enable_parallel
    b_pc,               \* position of process_batch: start, chunks, pool, done, raised
    chunk_i,            \* loop variable i of process_batch (offset of the next chunk)
    successful_items,   \* accumulator of process_batch
    failed_items,       \* accumulator of process_batch
    all_doc_ids,        \* accumulator of process_batch / its return value
    futures,            \* parallel path: per item of the chunk queued/running/vec/none
    chunk_doc_ids,      \* parallel path: doc_ids of the chunk being processed
    store_log,          \* one entry per vector_store.ingest_vectors call
    next_uuid,          \* number of uuid4 values drawn so far
    item_metadata,      \* doc_id and batch_index given to each item, oldest first
    \* ---- MetadataLimiter (validation.py) ----
    max_tags,           \* self.max_tags
    max_value_bytes,    \* self.max_value_bytes
    m_metadata,         \* argument of limit_metadata: the mapping in insertion order
    m_result,           \* return value of limit_metadata
    m_pc,               \* call / done
    \* ---- VectorDimensionManager (validation.py) ----
    target_dimension,   \* self.target_dimension
    d_type,             \* type of the argument: list, ndarray or other
    d_vector,           \* argument of validate_and_transform
    d_result,           \* its return value
    d_pc,               \* call / done / raised
    \* ---- The managed services behind the boto3 clients ----
    vector_buckets,     \* names of the existing vector buckets
    vector_indexes,     \* <<bucket, index>> of the existing vector indexes
    stored_vectors,     \* <<index, key>> of the vectors stored in the bucket
    s3_buckets,         \* names of the existing object-store buckets
    s3_objects,         \* per object-store bucket name, its number of objects
    \* ---- s3_vector_ops.py: bucket / index lifecycle ----
    o_history,          \* one record per finished call, oldest first
    \* ---- s3_vector_ops.py: ingest_vectors ----
    ing_vector_data,    \* argument vector_data: records [id, tags]
    ing_batch_size,     \* argument batch_size (0 stands for None)
    ing_pc,             \* call / batches / returned / raised
    ing_i,              \* loop variable i of the batch loop
    ing_successful,     \* successful_ingestions
    ing_failed,         \* failed_ingestions
    ing_ids,            \* ingested_vector_ids
    ing_error,          \* the exception the call raised
    put_log,            \* the put_vectors requests issued, oldest first
    add_texts_out,      \* what S3Vectors.add_texts gave its caller: status and doc_ids
    \* ---- cleanup.py ----
    cl_mode,            \* the branch of main the arguments select
    cl_dry_run,         \* --dry-run
    cl_index_names,     \* --index-names
    cl_pc,              \* main / a step of cleanup_all / return / exit
    cl_success,         \* success
    cl_exit_code,       \* the argument of sys.exit
    cl_steps,           \* the steps run so far, oldest first
    cl_log,             \* the requests sent to the services, oldest first
    \* ---- mm_index/patterns ----
    p_entry,            \* the method invoked: engine / pattern / validate
    p_pattern,          \* pattern_name
    p_data,             \* argument data
    p_object_store,     \* an object store is configured
    p_llm,              \* a text LLM is configured
    p_pc,               \* position inside the call
    p_validated,        \* what validate_data returned, if called
    p_outcome,          \* returned, or the exception raised
    p_calls,            \* calls to the collaborators, oldest first
    \* ---- s3_vector_browser/backend ----
    br_service,         \* data_service: unset / real / mock / none
    br_endpoint,        \* the endpoint requested
    br_cond,            \* how the backing service answers the request
    br_known,           \* the resource named in the request exists
    br_pc,              \* startup / ready / endpoint / extended / search / done
    br_calls,           \* data-service and library calls of get_item_metadata
    br_attempt,         \* loop variable attempt of get_item_metadata
    br_status,          \* HTTP status of the response, 0 before it
    \* ---- MMIngestor ----
    mm_index_name,      \* index_name, split at the first '/'
    mm_data_list,       \* data_list: what happens to each document
    mm_pc,              \* new / ready / done
    mm_processed,       \* processed_data_list
    mm_ingested,        \* positions of the documents ingested
    mm_outcome,         \* none / returned / raised
    mm_vector_dimension,\* vector_dimension given to MMIngestor and its components
    mm_index_dimension, \* dimension of the create_index request that created the index, 0 if none
    mm_submitted,       \* lengths of the vectors passed to vector_store.ingest_vectors
    \* ---- AuditLogger ----
    enable_performance_tracking,
    active_operations,  \* correlation ids registered and not removed
    operation_times,    \* per operation name, the number of durations recorded
    au_ops,             \* every operation started: name, how, how it ended
    \* ---- generate_all_datasets.py ----
    gen_fails,          \* per generator: it cannot produce its dataset
    gen_args_ok,        \* the counts are valid and every script is present
    gen_pc,             \* main / loop / returned
    gen_invoked,        \* scripts run so far, in order
    success_count,
    gen_reported,       \* the count print_summary reported, -1 before
    \* ---- aws-notebooklm/utils.py ----
    pod_dialog,         \* response_json['dialog']
    guest_name,         \* response_json['guest']
    extracted_speech,
    sounds_files,       \* indexes of the audio files written
    pod_pc              \* response / parsed / returned / raised

batchVars == <<data_list, batch_size, max_workers, enable_parallel, b_pc, chunk_i,
               successful_items, failed_items, all_doc_ids, futures,
               chunk_doc_ids, store_log, next_uuid, item_metadata>>

metaVars == <<max_tags, max_value_bytes, m_metadata, m_result, m_pc>>

dimVars == <<target_dimension, d_type, d_vector, d_result, d_pc>>

svcVars == <<vector_buckets, vector_indexes, stored_vectors, s3_buckets, s3_objects>>

opsVars == <<o_history>>

ingVars == <<ing_vector_data, ing_batch_size, ing_pc, ing_i, ing_successful,
             ing_failed, ing_ids, ing_error, put_log, add_texts_out>>

clVars == <<cl_mode, cl_dry_run, cl_index_names, cl_pc, cl_success,
            cl_exit_code, cl_steps, cl_log>>

patVars == <<p_entry, p_pattern, p_data, p_object_store, p_llm, p_pc,
             p_validated, p_outcome, p_calls>>

brVars == <<br_service, br_endpoint, br_cond, br_known, br_pc, br_calls,
            br_attempt, br_status>>

mmVars == <<mm_index_name, mm_data_list, mm_pc, mm_processed, mm_ingested, mm_outcome,
            mm_vector_dimension, mm_index_dimension, mm_submitted>>

auVars == <<enable_performance_tracking, active_operations, operation_times, au_ops>>

genVars == <<gen_fails, gen_args_ok, gen_pc, gen_invoked, success_count, gen_reported>>

podVars == <<pod_dialog, guest_name, extracted_speech, sounds_files, pod_pc>>

vars == <<batchVars, metaVars, dimVars, svcVars, opsVars, ingVars, clVars, patVars,
          brVars, mmVars, auVars, genVars, podVars>>

\* The variables a component leaves alone
nonBatchVars == <<metaVars, dimVars, svcVars, opsVars, ingVars, clVars, patVars, brVars, mmVars, auVars, genVars, podVars>>

nonMetaVars == <<batchVars, dimVars, svcVars, opsVars, ingVars, clVars, patVars, brVars, mmVars, auVars, genVars, podVars>>

nonDimVars == <<batchVars, metaVars, svcVars, opsVars, ingVars, clVars, patVars, brVars, mmVars, auVars, genVars, podVars>>

nonOpsVars == <<batchVars, metaVars, dimVars, ingVars, clVars, patVars, brVars, mmVars, auVars, genVars, podVars>>

nonIngVars == <<batchVars, metaVars, dimVars, opsVars, clVars, patVars, brVars, mmVars, auVars, genVars, podVars>>

nonClVars == <<batchVars, metaVars, dimVars, opsVars, ingVars, patVars, brVars, mmVars, auVars, genVars, podVars>>

nonPatVars == <<batchVars, metaVars, dimVars, opsVars, ingVars, clVars, brVars, mmVars, auVars, genVars, podVars>>

nonBrVars == <<batchVars, metaVars, dimVars, opsVars, ingVars, clVars, patVars, mmVars, auVars, genVars, podVars>>

nonMMVars == <<batchVars, metaVars, dimVars, opsVars, ingVars, clVars, patVars, brVars,
              auVars, genVars, podVars>>

nonAuVars == <<batchVars, metaVars, dimVars, opsVars, ingVars, clVars, patVars, brVars,
              mmVars, genVars, podVars>>

nonGenVars == <<batchVars, metaVars, dimVars, opsVars, ingVars, clVars, patVars, brVars,
               mmVars, auVars, podVars>>

nonPodVars == <<batchVars, metaVars, dimVars, opsVars, ingVars, clVars, patVars, brVars,
               mmVars, auVars, genVars>>

\* ------------------------------------------------------------------------
\* Generic helpers
\* ------------------------------------------------------------------------
Min(a, b) == IF a < b THEN a ELSE b

RECURSIVE CountOf(_, _)
CountOf(s, v) ==
    IF s = <<>> THEN 0
    ELSE (IF s[1] = v THEN 1 ELSE 0) + CountOf(Tail(s), v)

\* ------------------------------------------------------------------------
\* BatchProcessor
\* ------------------------------------------------------------------------
MaxItems == 4
MaxBatchSize == 3
MaxWorkers == 2

\* Mutant of ChunkAt: a chunk runs one item into the next chunk
ChunkAt_Overlap(lst, i, size) == SubSeq(lst, i + 1, Min(i + size + 1, Len(lst)))

\* data_list[i:i + batch_size]
ChunkAt(lst, i, size) == SubSeq(lst, i + 1, Min(i + size, Len(lst)))

\* Outcomes of vector_store.ingest_vectors for n submitted vectors: the call
\* raises (StoreRaises), or returns a result whose 'successful_ingestions'
\* is 0..n.
StoreRaises == 0 - 1

StoreResponses(n) == {StoreRaises} \cup (0..n)

\* _process_chunk_sequential: counts after the per-item loop (lines 177-227)
SeqItemCounts(chunk) == <<CountOf(chunk, FALSE), CountOf(chunk, TRUE)>>

\* The public methods of AuditLogger (audit_logger.py)
AuditLoggerMethods ==
    {"start_operation", "end_operation", "log_ingestion_start",
     "log_pattern_processing", "log_preprocessing", "log_batch_start",
     "log_batch_completion", "log_error", "get_performance_stats",
     "reset_performance_stats", "log_ingestion_complete", "get_session_summary"}

\* Mutant of SeqChunkCounts: the result loop logs every ingestion
SeqChunkCounts_Logged(chunk, resp) ==
    LET c == SeqItemCounts(chunk)
    IN  IF c[1] = 0 THEN c
        ELSE IF resp = StoreRaises THEN <<0, Len(chunk)>>
        ELSE c

\* _process_chunk_sequential: counts after the ingestion block (lines
\* 230-255).  After ingest_vectors has returned, the result loop calls
\* audit_logger.log_vector_ingestion (line 238) inside the same try block;
\* AuditLogger has no such method, so the AttributeError reaches the
\* except branch of line 249, like an exception of the store.
SeqChunkCounts(chunk, resp) ==
    LET c == SeqItemCounts(chunk)
    IN  IF c[1] = 0 THEN c
        ELSE IF resp = StoreRaises THEN <<0, Len(chunk)>>
        ELSE IF "log_vector_ingestion" \notin AuditLoggerMethods
        THEN <<0, Len(chunk)>>
        ELSE c

\* Mutant of ProcessSingleItem: the exception leaves the worker
ProcessSingleItem_Propagates(raises) == IF raises THEN "exception" ELSE "vec"

\* _process_single_item: vector data, or None when processing raised
ProcessSingleItem(raises) == IF raises THEN "none" ELSE "vec"

\* _process_chunk_parallel: the result-collection loop (lines 297-311)
ParCollectCounts(results) == <<CountOf(results, "vec"), CountOf(results, "none")>>

\* _process_chunk_parallel: counts after the ingestion block (lines 314-330)
ParChunkCounts(results, resp) ==
    LET c == ParCollectCounts(results)
    IN  IF c[1] = 0 THEN c
        ELSE IF resp = StoreRaises THEN <<0, Len(results)>>
        ELSE IF resp < c[1] THEN <<c[1] - (c[1] - resp), c[2] + (c[1] - resp)>>
        ELSE c

\* doc_ids generated for a chunk of n items: n fresh uuid4 values, in item order
FreshIds(from, n) == [k \in 1..n |-> from + k]

\* item_metadata.update({'doc_id': ..., 'batch_index': chunk_offset + i}) for
\* each item of a chunk
ItemMetadata(ids, chunk_offset) ==
    [k \in 1..Len(ids) |-> [doc_id |-> ids[k], batch_index |-> chunk_offset + (k - 1)]]

BatchInit ==
    /\ data_list \in UNION {[1..n -> BOOLEAN] : n \in 0..MaxItems}
    /\ batch_size \in 1..MaxBatchSize
    /\ max_workers \in 1..MaxWorkers
    /\ enable_parallel \in BOOLEAN
    /\ b_pc = "start"
    /\ chunk_i = 0
    /\ successful_items = 0
    /\ failed_items = 0
    /\ all_doc_ids = <<>>
    /\ futures = <<>>
    /\ chunk_doc_ids = <<>>
    /\ store_log = <<>>
    /\ next_uuid = 0
    /\ item_metadata = <<>>

BatchIdle ==
    /\ data_list = <<>>
    /\ batch_size = 1
    /\ max_workers = 1
    /\ enable_parallel = FALSE
    /\ b_pc = "idle"
    /\ chunk_i = 0
    /\ successful_items = 0
    /\ failed_items = 0
    /\ all_doc_ids = <<>>
    /\ futures = <<>>
    /\ chunk_doc_ids = <<>>
    /\ store_log = <<>>
    /\ next_uuid = 0
    /\ item_metadata = <<>>

\* process_batch, lines 77-93: input validation and initialisation
ProcessBatchStart ==
    /\ b_pc = "start"
    /\ IF data_list = <<>>
       THEN b_pc' = "raised"
       ELSE b_pc' = "chunks"
    /\ UNCHANGED <<data_list, batch_size, max_workers, enable_parallel, chunk_i,
                   successful_items, failed_items, all_doc_ids, futures,
                   chunk_doc_ids, store_log, next_uuid, item_metadata>>
    /\ UNCHANGED nonBatchVars

\* _process_chunk takes the parallel path (line 153)
UseParallel(chunk) == enable_parallel /\ Len(chunk) > 1

\* One iteration of the chunk loop through _process_chunk_sequential
ProcessChunkSequential ==
    /\ b_pc = "chunks"
    /\ chunk_i < Len(data_list)
    /\ LET chunk == ChunkAt(data_list, chunk_i, batch_size)
           nvec  == SeqItemCounts(chunk)[1]
       IN  /\ ~UseParallel(chunk)
           /\ \E resp \in StoreResponses(nvec) :
                /\ (nvec = 0) => (resp = 0)
                /\ LET c == SeqChunkCounts(chunk, resp)
                   IN  /\ successful_items' = successful_items + c[1]
                       /\ failed_items' = failed_items + c[2]
                /\ store_log' = IF nvec = 0 THEN store_log
                                ELSE Append(store_log,
                                       [submitted |-> nvec, resp |-> resp,
                                        size |-> Len(chunk), path |-> "seq",
                                        offset |-> chunk_i,
                                        ok |-> SeqChunkCounts(chunk, resp)[1],
                                        failed |-> SeqChunkCounts(chunk, resp)[2]])
           /\ all_doc_ids' = all_doc_ids \o FreshIds(next_uuid, Len(chunk))
           /\ item_metadata' = item_metadata
                                 \o ItemMetadata(FreshIds(next_uuid, Len(chunk)), chunk_i)
           /\ next_uuid' = next_uuid + Len(chunk)
    /\ chunk_i' = chunk_i + batch_size
    /\ UNCHANGED <<data_list, batch_size, max_workers, enable_parallel, b_pc,
                   futures, chunk_doc_ids>>
    /\ UNCHANGED nonBatchVars

\* _process_chunk_parallel, lines 276-294: every item is submitted to the pool
ParallelSubmit ==
    /\ b_pc = "chunks"
    /\ chunk_i < Len(data_list)
    /\ LET chunk == ChunkAt(data_list, chunk_i, batch_size)
       IN  /\ UseParallel(chunk)
           /\ futures' = [k \in 1..Len(chunk) |-> "queued"]
           /\ chunk_doc_ids' = FreshIds(next_uuid, Len(chunk))
           /\ item_metadata' = item_metadata
                                 \o ItemMetadata(FreshIds(next_uuid, Len(chunk)), chunk_i)
           /\ next_uuid' = next_uuid + Len(chunk)
    /\ b_pc' = "pool"
    /\ UNCHANGED <<data_list, batch_size, max_workers, enable_parallel, chunk_i,
                   successful_items, failed_items, all_doc_ids, store_log>>
    /\ UNCHANGED nonBatchVars

\* ThreadPoolExecutor: a free worker takes the oldest queued item
WorkerStart ==
    /\ b_pc = "pool"
    /\ CountOf(futures, "running") < Min(max_workers, Len(futures))
    /\ \E k \in 1..Len(futures) :
         /\ futures[k] = "queued"
         /\ \A j \in 1..(k - 1) : futures[j] # "queued"
         /\ futures' = [futures EXCEPT ![k] = "running"]
    /\ UNCHANGED <<data_list, batch_size, max_workers, enable_parallel, b_pc, chunk_i,
                   successful_items, failed_items, all_doc_ids, chunk_doc_ids,
                   store_log, next_uuid, item_metadata>>
    /\ UNCHANGED nonBatchVars

\* A worker finishes _process_single_item for its item (any running worker)
WorkerFinish ==
    /\ b_pc = "pool"
    /\ \E k \in 1..Len(futures) :
         /\ futures[k] = "running"
         /\ futures' = [futures EXCEPT ![k] = ProcessSingleItem(data_list[chunk_i + k])]
    /\ UNCHANGED <<data_list, batch_size, max_workers, enable_parallel, b_pc, chunk_i,
                   successful_items, failed_items, all_doc_ids, chunk_doc_ids,
                   store_log, next_uuid, item_metadata>>
    /\ UNCHANGED nonBatchVars

\* _process_chunk_parallel, lines 297-330: results are collected in submission
\* order once every future is done, then the chunk is ingested
ParallelCollect ==
    /\ b_pc = "pool"
    /\ \A k \in 1..Len(futures) : futures[k] \notin {"queued", "running"}
    /\ LET nvec == ParCollectCounts(futures)[1]
       IN  \E resp \in StoreResponses(nvec) :
             /\ (nvec = 0) => (resp = 0)
             /\ LET c == ParChunkCounts(futures, resp)
                IN  /\ successful_items' = successful_items + c[1]
                    /\ failed_items' = failed_items + c[2]
             /\ store_log' = IF nvec = 0 THEN store_log
                             ELSE Append(store_log,
                                    [submitted |-> nvec, resp |-> resp,
                                     size |-> Len(futures), path |-> "par",
                                     offset |-> chunk_i,
                                     ok |-> ParChunkCounts(futures, resp)[1],
                                     failed |-> ParChunkCounts(futures, resp)[2]])
    /\ all_doc_ids' = all_doc_ids \o chunk_doc_ids
    /\ chunk_i' = chunk_i + batch_size
    /\ futures' = <<>>
    /\ chunk_doc_ids' = <<>>
    /\ b_pc' = "chunks"
    /\ UNCHANGED <<data_list, batch_size, max_workers, enable_parallel, next_uuid,
                   item_metadata>>
    /\ UNCHANGED nonBatchVars

\* process_batch, lines 109-121: the loop is over, all_doc_ids is returned
ProcessBatchFinish ==
    /\ b_pc = "chunks"
    /\ chunk_i >= Len(data_list)
    /\ b_pc' = "done"
    /\ UNCHANGED <<data_list, batch_size, max_workers, enable_parallel, chunk_i,
                   successful_items, failed_items, all_doc_ids, futures,
                   chunk_doc_ids, store_log, next_uuid, item_metadata>>
    /\ UNCHANGED nonBatchVars

BatchNext ==
    \/ ProcessBatchStart
    \/ ProcessChunkSequential
    \/ ParallelSubmit
    \/ WorkerStart
    \/ WorkerFinish
    \/ ParallelCollect
    \/ ProcessBatchFinish

\* ------------------------------------------------------------------------
\* MetadataLimiter (validation.py)
\* A string is modelled by the UTF-8 width (1..4 bytes) of each of its
\* characters; a mapping by the sequence of its items in insertion order.
\* ------------------------------------------------------------------------
MaxInputTags == 3
MaxTagLimit == 2
MaxBudget == 13

\* Smallest byte budget explored
MinBudget == 12

\* self.priority_tags (default of MetadataLimiter.__init__)
priority_tags == <<"damage_id", "vehicle_make", "vehicle_model", "damage_type",
                   "strategy", "severity", "estimated_cost">>

\* Keys and values the input mappings are built from
TagKeys == {"damage_id", "vehicle_make", "color", "notes"}

TagValues == { <<1>>, <<3>>, <<3, 3, 3, 1, 1>>, <<3, 3, 3, 3, 1, 1>> }

\* len(s.encode('utf-8'))
RECURSIVE Utf8Len(_)
Utf8Len(s) == IF s = <<>> THEN 0 ELSE s[1] + Utf8Len(Tail(s))

\* "..."
Ellipsis == <<1, 1, 1>>

\* key in d
HasKey(d, k) == \E i \in 1..Len(d) : d[i].key = k

\* d[key]
Get(d, k) == d[CHOOSE i \in 1..Len(d) : d[i].key = k].value

\* _truncate_to_bytes: the binary search loop (lines 384-392)
RECURSIVE TruncateSearch(_, _, _, _, _)
TruncateSearch(text, max_bytes, left, right, result) ==
    IF left > right THEN result
    ELSE LET mid == (left + right) \div 2
             candidate == SubSeq(text, 1, mid)
         IN  IF Utf8Len(candidate) <= max_bytes
             THEN TruncateSearch(text, max_bytes, mid + 1, right, candidate)
             ELSE TruncateSearch(text, max_bytes, left, mid - 1, result)

\* _truncate_to_bytes
TruncateToBytes(text, max_bytes) ==
    IF Utf8Len(text) <= max_bytes THEN text
    ELSE TruncateSearch(text, max_bytes, 0, Len(text), <<>>)

\* Mutant of TruncatedValue: no room is reserved for the trailing ellipsis
TruncatedValue_NoReserve(value_str, available_bytes) ==
    TruncateToBytes(value_str, available_bytes) \o Ellipsis

\* self._truncate_to_bytes(value_str, available_bytes - 3) + "..."
TruncatedValue(value_str, available_bytes) ==
    TruncateToBytes(value_str, available_bytes - 3) \o Ellipsis

\* Mutant of FitsBudget: a value that fills the budget exactly does not fit
FitsBudget_Strict(current_total_bytes, value_bytes, maxBytes) ==
    current_total_bytes + value_bytes < maxBytes

\* current_total_bytes + value_bytes <= self.max_value_bytes (lines 222, 245)
FitsBudget(current_total_bytes, value_bytes, maxBytes) ==
    current_total_bytes + value_bytes <= maxBytes

\* Adding one tag (lines 218-236 and 241-261).  st is the loop state
\* [limited, slots, bytes, stop]; stop is set where the second loop breaks.
AddTag(st, key, value, maxBytes) ==
    LET value_bytes == Utf8Len(value)
    IN  IF FitsBudget(st.bytes, value_bytes, maxBytes)
        THEN [limited |-> Append(st.limited, [key |-> key, value |-> value]),
              slots |-> st.slots - 1,
              bytes |-> st.bytes + value_bytes,
              stop |-> FALSE]
        ELSE LET available_bytes == maxBytes - st.bytes
             IN  IF available_bytes > 10
                 THEN LET truncated_value == TruncatedValue(value, available_bytes)
                      IN  [limited |-> Append(st.limited,
                                              [key |-> key, value |-> truncated_value]),
                           slots |-> st.slots - 1,
                           bytes |-> st.bytes + Utf8Len(truncated_value),
                           stop |-> TRUE]
                 ELSE [st EXCEPT !.stop = TRUE]

\* The loop over self.priority_tags (lines 216-236), from position j on
RECURSIVE PriorityLoop(_, _, _, _, _)
PriorityLoop(st, metadata, prio, j, maxBytes) ==
    IF j > Len(prio) THEN st
    ELSE LET tag == prio[j]
             st2 == IF HasKey(metadata, tag) /\ st.slots > 0
                    THEN AddTag(st, tag, Get(metadata, tag), maxBytes)
                    ELSE st
         IN  PriorityLoop(st2, metadata, prio, j + 1, maxBytes)

\* The loop over metadata.items() (lines 239-261), from position j on; it
\* breaks after the first tag that did not fit as it was
RECURSIVE RestLoop(_, _, _, _)
RestLoop(st, metadata, j, maxBytes) ==
    IF j > Len(metadata) THEN st
    ELSE LET item == metadata[j]
         IN  IF ~HasKey(st.limited, item.key) /\ st.slots > 0
             THEN LET st2 == AddTag([st EXCEPT !.stop = FALSE],
                                    item.key, item.value, maxBytes)
                  IN  IF st2.stop THEN st2
                      ELSE RestLoop(st2, metadata, j + 1, maxBytes)
             ELSE RestLoop(st, metadata, j + 1, maxBytes)

\* MetadataLimiter.limit_metadata
LimitMetadata(metadata, maxTags, maxBytes, prio) ==
    IF metadata = <<>> THEN <<>>
    ELSE LET st0 == [limited |-> <<>>, slots |-> maxTags, bytes |-> 0, stop |-> FALSE]
             st1 == PriorityLoop(st0, metadata, prio, 1, maxBytes)
             st2 == RestLoop(st1, metadata, 1, maxBytes)
         IN  st2.limited

\* The mappings of n tags: distinct keys in any insertion order, any values
MappingsOfSize(n) ==
    { d \in [1..n -> [key : TagKeys, value : TagValues]] :
        \A i, j \in 1..n : (i # j) => (d[i].key # d[j].key) }

MetaInit ==
    /\ max_tags \in 1..MaxTagLimit
    /\ max_value_bytes \in MinBudget..MaxBudget
    /\ m_metadata \in UNION {MappingsOfSize(n) : n \in 0..MaxInputTags}
    /\ m_result = <<>>
    /\ m_pc = "call"

MetaIdle ==
    /\ max_tags = 1
    /\ max_value_bytes = 0
    /\ m_metadata = <<>>
    /\ m_result = <<>>
    /\ m_pc = "idle"

\* A call of limit_metadata(metadata)
LimitMetadataCall ==
    /\ m_pc = "call"
    /\ m_result' = LimitMetadata(m_metadata, max_tags, max_value_bytes, priority_tags)
    /\ m_pc' = "done"
    /\ UNCHANGED <<max_tags, max_value_bytes, m_metadata>>
    /\ UNCHANGED nonMetaVars

MetaNext == LimitMetadataCall

\* ------------------------------------------------------------------------
\* VectorDimensionManager (validation.py)
\* Vector elements are integers; np.float32 keeps 24 significant bits.
\* ------------------------------------------------------------------------
MaxDelta == 3
NumPatterns == 3

\* VectorConfig.validate: the supported dimensions
SupportedDimensions == {256, 384, 1024}

\* Largest power of two not above n (n >= 1), starting from p
RECURSIVE Pow2Below(_, _)
Pow2Below(n, p) == IF 2 * p > n THEN p ELSE Pow2Below(n, 2 * p)

\* np.float32(value) for a non-negative integer: round to 24 significant
\* bits, ties to even
Float32(n) ==
    IF n < 16777216 THEN n
    ELSE LET ulp == Pow2Below(n, 1) \div 8388608
             q   == n \div ulp
             r   == n % ulp
         IN  IF 2 * r < ulp THEN q * ulp
             ELSE IF 2 * r > ulp THEN (q + 1) * ulp
             ELSE IF q % 2 = 0 THEN q * ulp ELSE (q + 1) * ulp

\* np.array(vector, dtype=np.float32) / vector.astype(np.float32)
AsFloat32Array(v) == [i \in 1..Len(v) |-> Float32(v[i])]

\* ensure_float32
EnsureFloat32(v) == [i \in 1..Len(v) |-> Float32(v[i])]

\* vector_array[:self.target_dimension]
TruncateVector(v, dim) == SubSeq(v, 1, dim)

\* Mutant of PadVector: the zeros are put in front of the vector
PadVector_Front(v, dim) == [i \in 1..dim |-> IF i <= dim - Len(v) THEN 0 ELSE v[i - (dim - Len(v))]]

\* np.pad(vector_array, (0, padding_size), mode='constant', constant_values=0.0)
PadVector(v, dim) == [i \in 1..dim |-> IF i <= Len(v) THEN v[i] ELSE 0]

\* validate_and_transform for a list or ndarray argument (lines 85-103)
ValidateAndTransform(vector, dim) ==
    LET vector_array == AsFloat32Array(vector)
        original_dimension == Len(vector_array)
    IN  IF original_dimension = dim THEN EnsureFloat32(vector_array)
        ELSE IF original_dimension > dim
             THEN EnsureFloat32(TruncateVector(vector_array, dim))
             ELSE EnsureFloat32(PadVector(vector_array, dim))

\* The k-th input vector of length n: non-zero elements that differ by
\* position; pattern 2 and 3 hold values float32 cannot represent exactly
InputVector(n, k) ==
    [i \in 1..n |-> IF k = 1 THEN i
                    ELSE IF k = 2 THEN 16777216 + i
                    ELSE 33554432 + 3 * i]

\* Lengths around the target dimension, and very short vectors
InputLengths(dim) == (0..MaxDelta) \cup ((dim - MaxDelta)..(dim + MaxDelta))

DimInit ==
    /\ target_dimension \in SupportedDimensions
    /\ d_type \in {"list", "ndarray", "other"}
    /\ \E n \in InputLengths(target_dimension), k \in 1..NumPatterns :
         d_vector = InputVector(n, k)
    /\ d_result = <<>>
    /\ d_pc = "call"

DimIdle ==
    /\ target_dimension = 256
    /\ d_type = "list"
    /\ d_vector = <<>>
    /\ d_result = <<>>
    /\ d_pc = "idle"

\* A call of validate_and_transform(vector)
ValidateAndTransformCall ==
    /\ d_pc = "call"
    /\ IF d_type \in {"list", "ndarray"}
       THEN /\ d_result' = ValidateAndTransform(d_vector, target_dimension)
            /\ d_pc' = "done"
       ELSE /\ d_result' = <<>>
            /\ d_pc' = "raised"
    /\ UNCHANGED <<target_dimension, d_type, d_vector>>
    /\ UNCHANGED nonDimVars

DimNext == ValidateAndTransformCall

\* ------------------------------------------------------------------------
\* The managed services (boto3 's3vectors' and 's3' clients).  A call is
\* answered "ok" or with the error code of a ClientError; the codes are the
\* ones the callers test for.
\* ------------------------------------------------------------------------
\* get_bucket_name(account_id) and the object bucket derived from it
VectorBucketName == "automotive-vectors-showcase"

ObjectBucketName == "automotive-vectors-showcase-object"

IndexNames == {"dealer-index", "expert-index"}

\* Answers a service call can be given whatever the state of the service
Faults == {"none", "AccessDeniedException"}

\* s3vectors.get_vector_bucket
GetVectorBucket(buckets, b, fault) ==
    IF fault # "none" THEN fault
    ELSE IF b \in buckets THEN "ok" ELSE "NoSuchBucket"

\* s3vectors.create_vector_bucket
CreateVectorBucketCode(buckets, b, fault) ==
    IF fault # "none" THEN fault
    ELSE IF b \in buckets THEN "ConflictException" ELSE "ok"

\* s3vectors.create_index
CreateIndexCode(buckets, indexes, b, i, fault) ==
    IF fault # "none" THEN fault
    ELSE IF b \notin buckets THEN "NotFoundException"
    ELSE IF <<b, i>> \in indexes THEN "ConflictException" ELSE "ok"

\* s3vectors.delete_index
DeleteIndexCode(indexes, b, i, fault) ==
    IF fault # "none" THEN fault
    ELSE IF <<b, i>> \in indexes THEN "ok" ELSE "NoSuchIndex"

\* s3vectors.delete_vector_bucket (a bucket that still holds indexes is
\* not deleted)
DeleteVectorBucketCode(buckets, indexes, b, fault) ==
    IF fault # "none" THEN fault
    ELSE IF b \notin buckets THEN "NoSuchBucket"
    ELSE IF \E x \in indexes : x[1] = b THEN "ConflictException" ELSE "ok"

\* s3vectors.list_indexes
ListIndexesCode(buckets, b, fault) ==
    IF fault # "none" THEN fault
    ELSE IF b \in buckets THEN "ok" ELSE "NotFoundException"

\* s3vectors.delete_vectors: keys that are not stored are ignored
DeleteVectorsCode(indexes, b, i, fault) ==
    IF fault # "none" THEN fault
    ELSE IF <<b, i>> \in indexes THEN "ok" ELSE "NotFoundException"

SvcIdle ==
    /\ vector_buckets = {}
    /\ vector_indexes = {}
    /\ stored_vectors = {}
    /\ s3_buckets = {}
    /\ s3_objects = [b \in {ObjectBucketName, VectorBucketName} |-> 0]

\* ------------------------------------------------------------------------
\* s3_vector_ops.py: bucket and index lifecycle
\* ------------------------------------------------------------------------
MaxCalls == 3

\* Mutant of IsConflict: an existing resource is not recognised
IsConflict_Never(code) == FALSE

\* e.response['Error']['Code'] == 'ConflictException' (lines 80, 113)
IsConflict(code) == code = "ConflictException"

\* create_vector_bucket: the outcome and the buckets afterwards.  race: an
\* other client creates the bucket between the two service calls.
CreateVectorBucketResult(buckets, b, f1, f2, race) ==
    LET code1 == GetVectorBucket(buckets, b, f1)
    IN  IF code1 = "ok"
        THEN [outcome |-> "returned", buckets |-> buckets, faulted |-> FALSE]
        ELSE IF code1 # "NoSuchBucket"
        THEN [outcome |-> "raised", buckets |-> buckets, faulted |-> TRUE]
        ELSE LET buckets1 == IF race THEN buckets \cup {b} ELSE buckets
                 code2 == CreateVectorBucketCode(buckets1, b, f2)
             IN  IF code2 = "ok"
                 THEN [outcome |-> "returned", buckets |-> buckets1 \cup {b},
                       faulted |-> FALSE]
                 ELSE IF IsConflict(code2)
                 THEN [outcome |-> "returned", buckets |-> buckets1, faulted |-> FALSE]
                 ELSE [outcome |-> "raised", buckets |-> buckets1,
                       faulted |-> f2 # "none"]

\* create_vector_index: the outcome and the indexes afterwards
CreateVectorIndexResult(buckets, indexes, b, i, fault) ==
    LET code == CreateIndexCode(buckets, indexes, b, i, fault)
    IN  IF code = "ok"
        THEN [outcome |-> "returned", indexes |-> indexes \cup {<<b, i>>},
              faulted |-> FALSE]
        ELSE IF IsConflict(code)
        THEN [outcome |-> "returned", indexes |-> indexes, faulted |-> FALSE]
        ELSE [outcome |-> "raised", indexes |-> indexes, faulted |-> fault # "none"]

\* delete_index: True / False, and the indexes afterwards
DeleteIndexResult(indexes, b, i, fault) ==
    LET code == DeleteIndexCode(indexes, b, i, fault)
    IN  IF code = "ok"
        THEN [outcome |-> "True", indexes |-> indexes \ {<<b, i>>}, faulted |-> FALSE]
        ELSE IF code = "NoSuchIndex"
        THEN [outcome |-> "True", indexes |-> indexes, faulted |-> FALSE]
        ELSE [outcome |-> "False", indexes |-> indexes, faulted |-> TRUE]

\* delete_vector_bucket: True or raised, and the buckets afterwards
DeleteVectorBucketResult(buckets, indexes, b, fault) ==
    LET code == DeleteVectorBucketCode(buckets, indexes, b, fault)
    IN  IF code = "ok"
        THEN [outcome |-> "True", buckets |-> buckets \ {b}, faulted |-> FALSE]
        ELSE IF code = "NoSuchBucket"
        THEN [outcome |-> "True", buckets |-> buckets, faulted |-> FALSE]
        ELSE [outcome |-> "raised", buckets |-> buckets, faulted |-> fault # "none"]

\* delete_vectors: the summary returned (no exception leaves the call) and
\* the vectors afterwards
DeleteVectorsResult(indexes, vectors, b, i, ids, fault) ==
    LET code == DeleteVectorsCode(indexes, b, i, fault)
        n == Len(ids)
    IN  IF code = "ok"
        THEN [outcome |-> "deleted", successful_deletions |-> n, failed_deletions |-> 0,
              vectors |-> vectors \ {<<i, ids[k]>> : k \in 1..n},
              faulted |-> FALSE]
        ELSE [outcome |-> "failed", successful_deletions |-> 0, failed_deletions |-> n,
              vectors |-> vectors, faulted |-> fault # "none"]

\* list_indexes: the names listed or raised
ListIndexesResult(buckets, b, fault) ==
    LET code == ListIndexesCode(buckets, b, fault)
    IN  IF code = "ok"
        THEN [outcome |-> "returned", faulted |-> FALSE]
        ELSE [outcome |-> "raised", faulted |-> fault # "none"]

\* get_index_names: any exception of list_indexes becomes an empty list
GetIndexNamesResult(buckets, b, fault) ==
    LET l == ListIndexesResult(buckets, b, fault)
    IN  IF l.outcome = "raised"
        THEN [outcome |-> "returned_empty", faulted |-> l.faulted]
        ELSE [outcome |-> "returned", faulted |-> FALSE]

\* Arguments vector_ids of delete_vectors
VectorIdLists == {<<"v1">>, <<"v1", "v2">>}

OpsInit ==
    /\ vector_buckets \in SUBSET {VectorBucketName}
    /\ vector_indexes \in SUBSET ({VectorBucketName} \X IndexNames)
    /\ \A x \in vector_indexes : x[1] \in vector_buckets
    /\ stored_vectors \in SUBSET {<<x[2], "v1">> : x \in vector_indexes}
    /\ s3_buckets = {}
    /\ s3_objects = [b \in {ObjectBucketName, VectorBucketName} |-> 0]
    /\ o_history = <<>>

OpsIdle == o_history = <<>>

\* The record of a finished call
CallRecord(op, target, existed, res) ==
    [op |-> op, target |-> target, existed |-> existed,
     faulted |-> res.faulted, outcome |-> res.outcome]

\* create_vector_bucket(s3_vectors_client, bucket_name)
CreateVectorBucket ==
    /\ Len(o_history) < MaxCalls
    /\ \E f1 \in Faults, f2 \in Faults, race \in BOOLEAN :
         LET b == VectorBucketName
             res == CreateVectorBucketResult(vector_buckets, b, f1, f2, race)
         IN  /\ vector_buckets' = res.buckets
             /\ o_history' = Append(o_history,
                    CallRecord("create_vector_bucket", b, b \in vector_buckets, res))
    /\ UNCHANGED <<vector_indexes, stored_vectors, s3_buckets, s3_objects>>
    /\ UNCHANGED nonOpsVars

\* create_vector_index(s3_vectors_client, bucket_name, index_name)
CreateVectorIndex ==
    /\ Len(o_history) < MaxCalls
    /\ \E i \in IndexNames, fault \in Faults :
         LET b == VectorBucketName
             res == CreateVectorIndexResult(vector_buckets, vector_indexes, b, i, fault)
         IN  /\ vector_indexes' = res.indexes
             /\ o_history' = Append(o_history,
                    CallRecord("create_vector_index", i, <<b, i>> \in vector_indexes, res))
    /\ UNCHANGED <<vector_buckets, stored_vectors, s3_buckets, s3_objects>>
    /\ UNCHANGED nonOpsVars

\* delete_index(s3_vectors_client, bucket_name, index_name)
DeleteIndex ==
    /\ Len(o_history) < MaxCalls
    /\ \E i \in IndexNames, fault \in Faults :
         LET b == VectorBucketName
             res == DeleteIndexResult(vector_indexes, b, i, fault)
         IN  /\ vector_indexes' = res.indexes
             /\ stored_vectors' = IF <<b, i>> \in res.indexes THEN stored_vectors
                                  ELSE {v \in stored_vectors : v[1] # i}
             /\ o_history' = Append(o_history,
                    CallRecord("delete_index", i, <<b, i>> \in vector_indexes, res))
    /\ UNCHANGED <<vector_buckets, s3_buckets, s3_objects>>
    /\ UNCHANGED nonOpsVars

\* delete_vector_bucket(s3_vectors_client, bucket_name)
DeleteVectorBucket ==
    /\ Len(o_history) < MaxCalls
    /\ \E fault \in Faults :
         LET b == VectorBucketName
             res == DeleteVectorBucketResult(vector_buckets, vector_indexes, b, fault)
         IN  /\ vector_buckets' = res.buckets
             /\ o_history' = Append(o_history,
                    CallRecord("delete_vector_bucket", b, b \in vector_buckets, res))
    /\ UNCHANGED <<vector_indexes, stored_vectors, s3_buckets, s3_objects>>
    /\ UNCHANGED nonOpsVars

\* delete_vectors(s3_vectors_client, bucket_name, index_name, vector_ids)
DeleteVectors ==
    /\ Len(o_history) < MaxCalls
    /\ \E i \in IndexNames, ids \in VectorIdLists, fault \in Faults :
         LET b == VectorBucketName
             res == DeleteVectorsResult(vector_indexes, stored_vectors, b, i, ids, fault)
             existed == \A k \in 1..Len(ids) : <<i, ids[k]>> \in stored_vectors
         IN  /\ stored_vectors' = res.vectors
             /\ o_history' = Append(o_history,
                    CallRecord("delete_vectors", i, existed, res))
    /\ UNCHANGED <<vector_buckets, vector_indexes, s3_buckets, s3_objects>>
    /\ UNCHANGED nonOpsVars

\* list_indexes(s3_vectors_client, bucket_name)
ListIndexes ==
    /\ Len(o_history) < MaxCalls
    /\ \E fault \in Faults :
         LET b == VectorBucketName
             res == ListIndexesResult(vector_buckets, b, fault)
         IN  o_history' = Append(o_history,
                    CallRecord("list_indexes", b, b \in vector_buckets, res))
    /\ UNCHANGED svcVars
    /\ UNCHANGED nonOpsVars

\* get_index_names(s3_vectors_client, bucket_name)
GetIndexNames ==
    /\ Len(o_history) < MaxCalls
    /\ \E fault \in Faults :
         LET b == VectorBucketName
             res == GetIndexNamesResult(vector_buckets, b, fault)
         IN  o_history' = Append(o_history,
                    CallRecord("get_index_names", b, b \in vector_buckets, res))
    /\ UNCHANGED svcVars
    /\ UNCHANGED nonOpsVars

OpsNext ==
    \/ CreateVectorBucket
    \/ CreateVectorIndex
    \/ DeleteIndex
    \/ DeleteVectorBucket
    \/ DeleteVectors
    \/ ListIndexes
    \/ GetIndexNames

\* ------------------------------------------------------------------------
\* s3_vector_ops.py: ingest_vectors
\* A record is [id, tags]: tags is len(metadata), or NotADict when the
\* metadata is not a dictionary.
\* ------------------------------------------------------------------------
MaxVectors == 3
MaxIngestBatch == 2

\* config.MAX_METADATA_TAGS
MAX_METADATA_TAGS == 10

\* config.DEFAULT_BATCH_SIZE
DEFAULT_BATCH_SIZE == 25

NotADict == 0 - 1

VectorIds == {"v1", "v2"}

TagCounts == {NotADict, 0, MAX_METADATA_TAGS, MAX_METADATA_TAGS + 1}

NoError == [type |-> "none", vector_id |-> "", actual_count |-> 0, max_allowed |-> 0]

\* validate_metadata_limits: the exception it raises for a record, if any
ValidateMetadataLimits(rec, maxTags) ==
    IF rec.tags = NotADict
    THEN [type |-> "TypeError", vector_id |-> rec.id,
          actual_count |-> 0, max_allowed |-> 0]
    ELSE IF rec.tags > maxTags
    THEN [type |-> "MetadataLimitExceededError", vector_id |-> rec.id,
          actual_count |-> rec.tags, max_allowed |-> maxTags]
    ELSE NoError

\* Mutant of RecordsValidated: only the first batch is validated up front
RecordsValidated_FirstBatch(vector_data, bs) == Min(bs, Len(vector_data))

\* The records the validation loop (lines 131-134) covers before the first
\* batch is sent
RecordsValidated(vector_data, bs) == Len(vector_data)

\* The validation loop: the first exception raised, NoError if none
RECURSIVE ValidateAll(_, _, _)
ValidateAll(vector_data, k, upto) ==
    IF k > upto THEN NoError
    ELSE LET e == ValidateMetadataLimits(vector_data[k], MAX_METADATA_TAGS)
         IN  IF e.type # "none" THEN e ELSE ValidateAll(vector_data, k + 1, upto)

\* batch_size after the default is applied (lines 127-128)
EffectiveBatchSize(bs) == IF bs = 0 THEN DEFAULT_BATCH_SIZE ELSE bs

\* s3vectors.put_vectors
PutVectorsCode(indexes, b, i, fault) ==
    IF fault # "none" THEN fault
    ELSE IF <<b, i>> \in indexes THEN "ok" ELSE "NotFoundException"

IngIndex == "dealer-index"

RECURSIVE IdsOf(_)
IdsOf(batch) == IF batch = <<>> THEN <<>> ELSE <<batch[1].id>> \o IdsOf(Tail(batch))

IngInit ==
    /\ vector_buckets = {VectorBucketName}
    /\ vector_indexes \in SUBSET {<<VectorBucketName, IngIndex>>}
    /\ stored_vectors = {}
    /\ s3_buckets = {}
    /\ s3_objects = [b \in {ObjectBucketName, VectorBucketName} |-> 0]
    /\ ing_vector_data \in UNION {[1..n -> [id : VectorIds, tags : TagCounts]] :
                                      n \in 0..MaxVectors}
    /\ ing_batch_size \in 0..MaxIngestBatch
    /\ ing_pc = "call"
    /\ ing_i = 0
    /\ ing_successful = 0
    /\ ing_failed = 0
    /\ ing_ids = <<>>
    /\ ing_error = NoError
    /\ put_log = <<>>
    /\ add_texts_out = [status |-> "none", doc_ids |-> <<>>]

IngIdle ==
    /\ ing_vector_data = <<>>
    /\ ing_batch_size = 0
    /\ ing_pc = "idle"
    /\ ing_i = 0
    /\ ing_successful = 0
    /\ ing_failed = 0
    /\ ing_ids = <<>>
    /\ ing_error = NoError
    /\ put_log = <<>>
    /\ add_texts_out = [status |-> "none", doc_ids |-> <<>>]

\* ingest_vectors, lines 124-139: defaults, validation of every record
IngestValidate ==
    /\ ing_pc = "call"
    /\ LET bs == EffectiveBatchSize(ing_batch_size)
           e == ValidateAll(ing_vector_data, 1, RecordsValidated(ing_vector_data, bs))
       IN  /\ ing_error' = e
           /\ ing_pc' = IF e.type # "none" THEN "raised" ELSE "batches"
    /\ UNCHANGED <<ing_vector_data, ing_batch_size, ing_i, ing_successful,
                   ing_failed, ing_ids, put_log, add_texts_out>>
    /\ UNCHANGED svcVars
    /\ UNCHANGED nonIngVars

\* ingest_vectors, lines 142-171: one iteration of the batch loop
IngestBatch ==
    /\ ing_pc = "batches"
    /\ ing_i < Len(ing_vector_data)
    /\ LET bs == EffectiveBatchSize(ing_batch_size)
           batch == ChunkAt(ing_vector_data, ing_i, bs)
       IN  \E fault \in Faults :
             LET code == PutVectorsCode(vector_indexes, VectorBucketName, IngIndex, fault)
             IN  /\ put_log' = Append(put_log, IdsOf(batch))
                 /\ IF code = "ok"
                    THEN /\ ing_successful' = ing_successful + Len(batch)
                         /\ ing_ids' = ing_ids \o IdsOf(batch)
                         /\ stored_vectors' = stored_vectors \cup
                                {<<IngIndex, batch[k].id>> : k \in 1..Len(batch)}
                         /\ UNCHANGED ing_failed
                    ELSE /\ ing_failed' = ing_failed + Len(batch)
                         /\ UNCHANGED <<ing_successful, ing_ids, stored_vectors>>
                 /\ ing_i' = ing_i + bs
    /\ UNCHANGED <<ing_vector_data, ing_batch_size, ing_pc, ing_error, add_texts_out>>
    /\ UNCHANGED <<vector_buckets, vector_indexes, s3_buckets, s3_objects>>
    /\ UNCHANGED nonIngVars

\* ingest_vectors, lines 173-184: the summary is returned
IngestReturn ==
    /\ ing_pc = "batches"
    /\ ing_i >= Len(ing_vector_data)
    /\ ing_pc' = "returned"
    /\ UNCHANGED <<ing_vector_data, ing_batch_size, ing_i, ing_successful,
                   ing_failed, ing_ids, ing_error, put_log, add_texts_out>>
    /\ UNCHANGED svcVars
    /\ UNCHANGED nonIngVars

\* langchain_community/vectorstores/s3_vectors.py, add_texts lines 198-213:
\* the documents it builds.  Record i gets the id doc_{i}_{hash}, distinct
\* for each position, and a metadata dictionary holding the caller's keys
\* plus 'text' and 'doc_id'
AddTextsDocuments(vector_data) ==
    /\ \A k \in 1..Len(vector_data) : vector_data[k].tags >= 2
    /\ \A j, k \in 1..Len(vector_data) : j # k => vector_data[j].id # vector_data[k].id

\* S3Vectors.add_texts, lines 215-229, after its ingest_vectors call ended:
\* the summary ingest_vectors returned is dropped and doc_ids is returned;
\* an exception of ingest_vectors is logged and raised again
AddTexts ==
    /\ ing_pc \in {"returned", "raised"}
    /\ add_texts_out.status = "none"
    /\ AddTextsDocuments(ing_vector_data)
    /\ add_texts_out' = IF ing_pc = "returned"
                        THEN [status |-> "returned", doc_ids |-> IdsOf(ing_vector_data)]
                        ELSE [status |-> "raised", doc_ids |-> <<>>]
    /\ UNCHANGED <<ing_vector_data, ing_batch_size, ing_pc, ing_i, ing_successful,
                   ing_failed, ing_ids, ing_error, put_log>>
    /\ UNCHANGED svcVars
    /\ UNCHANGED nonIngVars

IngNext ==
    \/ IngestValidate
    \/ IngestBatch
    \/ IngestReturn
    \/ AddTexts

\* ------------------------------------------------------------------------
\* cleanup.py: AWSResourceCleanup and main
\* A bucket's objects are counted, not named.  cl_log holds one entry per
\* request sent to a service: the step that sent it, the operation, its
\* target and the answer's code.
\* ------------------------------------------------------------------------
MaxObjects == 1

\* Keys in one list_objects_v2 answer; list_s3_objects reads one answer only
ListPageLimit == 1000

\* batch_size of delete_s3_objects
DeleteBatchSize == 1000

Modes == {"list_only", "vectors_only", "objects_only", "full"}

\* Values of --index-names; <<>> when the option is absent
IndexNameArgs == {<<>>, <<"expert-index">>}

IndexOrder == <<"dealer-index", "expert-index">>

\* Outcomes of one delete_objects request: all keys deleted, the request
\* refused, or an answer that lists one key under Errors
DeleteObjectsOutcomes == Faults \cup {"KeyError"}

CallEntry(step, op, target, code) ==
    [step |-> step, op |-> op, target |-> target, code |-> code]

\* s3.list_objects_v2
ListObjectsCode(buckets, b, fault) ==
    IF fault # "none" THEN fault
    ELSE IF b \in buckets THEN "ok" ELSE "NoSuchBucket"

\* s3.head_bucket
HeadBucketCode(buckets, b, fault) ==
    IF fault # "none" THEN fault
    ELSE IF b \in buckets THEN "ok" ELSE "404"

\* s3.delete_bucket
DeleteBucketCode(buckets, objects, b, fault) ==
    IF fault # "none" THEN fault
    ELSE IF b \notin buckets THEN "NoSuchBucket"
    ELSE IF objects[b] > 0 THEN "BucketNotEmpty" ELSE "ok"

\* The index names of bucket b, as list_indexes returns them
IndexSeq(indexes, b) ==
    SelectSeq(IndexOrder, LAMBDA n : <<b, n>> \in indexes)

\* list_vector_indexes: the names found and the requests sent
ListVectorIndexes(step, vbs, idx, f) ==
    LET c1 == GetVectorBucket(vbs, VectorBucketName, f[1])
        e1 == CallEntry(step, "get_vector_bucket", VectorBucketName, c1)
    IN  IF c1 # "ok"
        THEN [ret |-> <<>>, calls |-> <<e1>>]
        ELSE LET c2 == ListIndexesCode(vbs, VectorBucketName, f[2])
                 e2 == CallEntry(step, "list_indexes", VectorBucketName, c2)
             IN  [ret |-> IF c2 = "ok" THEN IndexSeq(idx, VectorBucketName) ELSE <<>>,
                  calls |-> <<e1, e2>>]

\* delete_vectors_from_index
DeleteVectorsFromIndex(step, idx, name, dry, fault) ==
    IF dry
    THEN [ret |-> TRUE, calls |-> <<>>, indexes |-> idx]
    ELSE LET r == DeleteIndexResult(idx, VectorBucketName, name, fault)
             c == DeleteIndexCode(idx, VectorBucketName, name, fault)
         IN  [ret |-> r.outcome = "True",
              calls |-> <<CallEntry(step, "delete_index", name, c)>>,
              indexes |-> r.indexes]

\* delete_all_vector_indexes, lines 115-118: the loop over the indexes
RECURSIVE DeleteEachIndex(_, _, _, _, _, _)
DeleteEachIndex(step, names, k, idx, dry, fd) ==
    IF k > Len(names)
    THEN [count |-> 0, calls |-> <<>>, indexes |-> idx]
    ELSE LET r == DeleteVectorsFromIndex(step, idx, names[k], dry, fd[k])
             rest == DeleteEachIndex(step, names, k + 1, r.indexes, dry, fd)
         IN  [count |-> (IF r.ret THEN 1 ELSE 0) + rest.count,
              calls |-> r.calls \o rest.calls,
              indexes |-> rest.indexes]

\* delete_all_vector_indexes
DeleteAllVectorIndexes(step, vbs, idx, index_names, dry, f, fd) ==
    LET l == IF index_names # <<>>
             THEN [ret |-> index_names, calls |-> <<>>]
             ELSE ListVectorIndexes(step, vbs, idx, f)
    IN  IF l.ret = <<>>
        THEN [ret |-> TRUE, calls |-> l.calls, indexes |-> idx]
        ELSE LET d == DeleteEachIndex(step, l.ret, 1, idx, dry, fd)
             IN  [ret |-> d.count = Len(l.ret),
                  calls |-> l.calls \o d.calls,
                  indexes |-> d.indexes]

\* list_s3_objects: the number of objects listed and the request sent
ListS3Objects(step, buckets, objects, b, fault) ==
    LET c == ListObjectsCode(buckets, b, fault)
    IN  [ret |-> IF c = "ok" THEN Min(objects[b], ListPageLimit) ELSE 0,
         calls |-> <<CallEntry(step, "list_objects_v2", b, c)>>]

\* delete_s3_objects, lines 149-178: the listed keys are deleted in batches
RECURSIVE DeleteBatches(_, _, _, _, _)
DeleteBatches(step, b, n, i, outcome) ==
    IF i >= n
    THEN [deleted |-> 0, calls |-> <<>>, raised |-> FALSE]
    ELSE LET size == Min(DeleteBatchSize, n - i)
         IN  IF outcome = "AccessDeniedException"
             THEN [deleted |-> 0,
                   calls |-> <<CallEntry(step, "delete_objects", b, outcome)>>,
                   raised |-> TRUE]
             ELSE LET rest == DeleteBatches(step, b, n, i + DeleteBatchSize, outcome)
                      gone == IF outcome = "KeyError" THEN size - 1 ELSE size
                      code == IF outcome = "KeyError" THEN "ok_with_errors" ELSE "ok"
                  IN  [deleted |-> gone + rest.deleted,
                       calls |-> <<CallEntry(step, "delete_objects", b, code)>> \o rest.calls,
                       raised |-> rest.raised]

\* Mutant of DeleteS3Objects: the dry-run check of line 145 is missing
DeleteS3Objects_NoDryRun(step, buckets, objects, b, dry, fault, outcome) ==
    LET l == ListS3Objects(step, buckets, objects, b, fault)
    IN  IF l.ret = 0
        THEN [ret |-> TRUE, calls |-> l.calls, objects |-> objects]
        ELSE LET d == DeleteBatches(step, b, l.ret, 0, outcome)
             IN  [ret |-> (~d.raised) /\ d.deleted = l.ret,
                  calls |-> l.calls \o d.calls,
                  objects |-> [objects EXCEPT ![b] = @ - d.deleted]]

\* delete_s3_objects
DeleteS3Objects(step, buckets, objects, b, dry, fault, outcome) ==
    LET l == ListS3Objects(step, buckets, objects, b, fault)
    IN  IF l.ret = 0
        THEN [ret |-> TRUE, calls |-> l.calls, objects |-> objects]
        ELSE IF dry
        THEN [ret |-> TRUE, calls |-> l.calls, objects |-> objects]
        ELSE LET d == DeleteBatches(step, b, l.ret, 0, outcome)
             IN  [ret |-> (~d.raised) /\ d.deleted = l.ret,
                  calls |-> l.calls \o d.calls,
                  objects |-> [objects EXCEPT ![b] = @ - d.deleted]]

\* delete_s3_bucket
DeleteS3Bucket(step, buckets, objects, b, dry, f) ==
    IF dry
    THEN [ret |-> TRUE, calls |-> <<>>, buckets |-> buckets]
    ELSE LET c1 == HeadBucketCode(buckets, b, f[1])
             e1 == CallEntry(step, "head_bucket", b, c1)
         IN  IF c1 = "404" THEN [ret |-> TRUE, calls |-> <<e1>>, buckets |-> buckets]
             ELSE IF c1 # "ok" THEN [ret |-> FALSE, calls |-> <<e1>>, buckets |-> buckets]
             ELSE LET l == ListS3Objects(step, buckets, objects, b, f[2])
                  IN  IF l.ret > 0
                      THEN [ret |-> FALSE, calls |-> <<e1>> \o l.calls, buckets |-> buckets]
                      ELSE LET c3 == DeleteBucketCode(buckets, objects, b, f[3])
                               e3 == CallEntry(step, "delete_bucket", b, c3)
                           IN  [ret |-> c3 = "ok",
                                calls |-> <<e1>> \o l.calls \o <<e3>>,
                                buckets |-> IF c3 = "ok" THEN buckets \ {b} ELSE buckets]

\* delete_vector_bucket (cleanup.py)
CleanupDeleteVectorBucket(step, vbs, idx, dry, f) ==
    IF dry
    THEN [ret |-> TRUE, calls |-> <<>>, buckets |-> vbs]
    ELSE LET c1 == GetVectorBucket(vbs, VectorBucketName, f[1])
             e1 == CallEntry(step, "get_vector_bucket", VectorBucketName, c1)
         IN  IF c1 = "NoSuchBucket" THEN [ret |-> TRUE, calls |-> <<e1>>, buckets |-> vbs]
             ELSE IF c1 # "ok" THEN [ret |-> FALSE, calls |-> <<e1>>, buckets |-> vbs]
             ELSE LET c2 == DeleteVectorBucketCode(vbs, idx, VectorBucketName, f[2])
                      e2 == CallEntry(step, "delete_vector_bucket", VectorBucketName, c2)
                  IN  [ret |-> c2 = "ok",
                       calls |-> <<e1, e2>>,
                       buckets |-> IF c2 = "ok" THEN vbs \ {VectorBucketName} ELSE vbs]

NoExit == 0 - 1

ObjectCounts == (0..MaxObjects) \cup {ListPageLimit + MaxObjects}

FaultChoices(n) == [1..n -> Faults]

\* Mutant of StepAfter: the vector bucket is deleted right after the indexes
StepAfter_VectorBucketEarly(step) ==
    CASE step = "indexes" -> "vector_bucket"
      [] step = "vector_bucket" -> "objects"
      [] step = "objects" -> "object_bucket"
      [] OTHER -> "return"

\* cleanup_all: the step that follows a step
StepAfter(step) ==
    CASE step = "indexes" -> "objects"
      [] step = "objects" -> "object_bucket"
      [] step = "object_bucket" -> "vector_bucket"
      [] OTHER -> "return"

ClInit ==
    /\ vector_buckets \in SUBSET {VectorBucketName}
    /\ vector_indexes \in SUBSET (vector_buckets \X IndexNames)
    /\ stored_vectors = {}
    /\ s3_buckets \in SUBSET {ObjectBucketName, VectorBucketName}
    /\ s3_objects \in [{ObjectBucketName, VectorBucketName} -> ObjectCounts]
    /\ \A b \in {ObjectBucketName, VectorBucketName} :
           b \notin s3_buckets => s3_objects[b] = 0
    /\ s3_objects[VectorBucketName] <= MaxObjects
    /\ cl_mode \in Modes
    /\ cl_dry_run \in BOOLEAN
    /\ cl_index_names \in IndexNameArgs
    /\ cl_pc = "main"
    /\ cl_success = TRUE
    /\ cl_exit_code = NoExit
    /\ cl_steps = <<>>
    /\ cl_log = <<>>

ClIdle ==
    /\ cl_mode = "full"
    /\ cl_dry_run = FALSE
    /\ cl_index_names = <<>>
    /\ cl_pc = "idle"
    /\ cl_success = TRUE
    /\ cl_exit_code = NoExit
    /\ cl_steps = <<>>
    /\ cl_log = <<>>

\* main, lines 300-309: --list-only
MainListOnly ==
    /\ cl_pc = "main"
    /\ cl_mode = "list_only"
    /\ \E f \in FaultChoices(2) :
         LET l == ListVectorIndexes("list", vector_buckets, vector_indexes, f)
         IN  cl_log' = cl_log \o l.calls
    /\ cl_success' = TRUE
    /\ cl_steps' = Append(cl_steps, "list")
    /\ cl_pc' = "return"
    /\ UNCHANGED <<cl_mode, cl_dry_run, cl_index_names, cl_exit_code>>
    /\ UNCHANGED svcVars
    /\ UNCHANGED nonClVars

\* main, lines 310-312: --vectors-only
MainVectorsOnly ==
    /\ cl_pc = "main"
    /\ cl_mode = "vectors_only"
    /\ \E f \in FaultChoices(2), fd \in FaultChoices(Len(IndexOrder)) :
         LET r == DeleteAllVectorIndexes("indexes", vector_buckets, vector_indexes,
                                         cl_index_names, cl_dry_run, f, fd)
         IN  /\ cl_log' = cl_log \o r.calls
             /\ cl_success' = r.ret
             /\ vector_indexes' = r.indexes
    /\ cl_steps' = Append(cl_steps, "indexes")
    /\ cl_pc' = "return"
    /\ UNCHANGED <<cl_mode, cl_dry_run, cl_index_names, cl_exit_code>>
    /\ UNCHANGED <<vector_buckets, stored_vectors, s3_buckets, s3_objects>>
    /\ UNCHANGED nonClVars

\* main, lines 313-316: --objects-only; the second call is made only when
\* the first returned True
MainObjectsOnly ==
    /\ cl_pc = "main"
    /\ cl_mode = "objects_only"
    /\ \E f \in FaultChoices(2), o \in [1..2 -> DeleteObjectsOutcomes] :
         LET r1 == DeleteS3Objects("objects", s3_buckets, s3_objects,
                                   ObjectBucketName, cl_dry_run, f[1], o[1])
             r2 == DeleteS3Objects("objects", s3_buckets, r1.objects,
                                   VectorBucketName, cl_dry_run, f[2], o[2])
         IN  IF r1.ret
             THEN /\ cl_log' = cl_log \o r1.calls \o r2.calls
                  /\ cl_success' = r2.ret
                  /\ s3_objects' = r2.objects
             ELSE /\ cl_log' = cl_log \o r1.calls
                  /\ cl_success' = FALSE
                  /\ s3_objects' = r1.objects
    /\ cl_steps' = Append(cl_steps, "objects")
    /\ cl_pc' = "return"
    /\ UNCHANGED <<cl_mode, cl_dry_run, cl_index_names, cl_exit_code>>
    /\ UNCHANGED <<vector_buckets, vector_indexes, stored_vectors, s3_buckets>>
    /\ UNCHANGED nonClVars

\* main, line 319 and cleanup_all, line 246
CleanupAllStart ==
    /\ cl_pc = "main"
    /\ cl_mode = "full"
    /\ cl_success' = TRUE
    /\ cl_pc' = "indexes"
    /\ UNCHANGED <<cl_mode, cl_dry_run, cl_index_names, cl_exit_code, cl_steps, cl_log>>
    /\ UNCHANGED svcVars
    /\ UNCHANGED nonClVars

\* cleanup_all, lines 248-251
StepDeleteIndexes ==
    /\ cl_pc = "indexes"
    /\ \E f \in FaultChoices(2), fd \in FaultChoices(Len(IndexOrder)) :
         LET r == DeleteAllVectorIndexes("indexes", vector_buckets, vector_indexes,
                                         <<>>, cl_dry_run, f, fd)
         IN  /\ cl_log' = cl_log \o r.calls
             /\ cl_success' = (cl_success /\ r.ret)
             /\ vector_indexes' = r.indexes
    /\ cl_steps' = Append(cl_steps, "indexes")
    /\ cl_pc' = StepAfter("indexes")
    /\ UNCHANGED <<cl_mode, cl_dry_run, cl_index_names, cl_exit_code>>
    /\ UNCHANGED <<vector_buckets, stored_vectors, s3_buckets, s3_objects>>
    /\ UNCHANGED nonClVars

\* cleanup_all, lines 253-256
StepDeleteObjects ==
    /\ cl_pc = "objects"
    /\ \E f \in Faults, o \in DeleteObjectsOutcomes :
         LET r == DeleteS3Objects("objects", s3_buckets, s3_objects,
                                  ObjectBucketName, cl_dry_run, f, o)
         IN  /\ cl_log' = cl_log \o r.calls
             /\ cl_success' = (cl_success /\ r.ret)
             /\ s3_objects' = r.objects
    /\ cl_steps' = Append(cl_steps, "objects")
    /\ cl_pc' = StepAfter("objects")
    /\ UNCHANGED <<cl_mode, cl_dry_run, cl_index_names, cl_exit_code>>
    /\ UNCHANGED <<vector_buckets, vector_indexes, stored_vectors, s3_buckets>>
    /\ UNCHANGED nonClVars

\* cleanup_all, lines 258-261
StepDeleteObjectBucket ==
    /\ cl_pc = "object_bucket"
    /\ \E f \in FaultChoices(3) :
         LET r == DeleteS3Bucket("object_bucket", s3_buckets, s3_objects,
                                 ObjectBucketName, cl_dry_run, f)
         IN  /\ cl_log' = cl_log \o r.calls
             /\ cl_success' = (cl_success /\ r.ret)
             /\ s3_buckets' = r.buckets
    /\ cl_steps' = Append(cl_steps, "object_bucket")
    /\ cl_pc' = StepAfter("object_bucket")
    /\ UNCHANGED <<cl_mode, cl_dry_run, cl_index_names, cl_exit_code>>
    /\ UNCHANGED <<vector_buckets, vector_indexes, stored_vectors, s3_objects>>
    /\ UNCHANGED nonClVars

\* cleanup_all, lines 263-266
StepDeleteVectorBucket ==
    /\ cl_pc = "vector_bucket"
    /\ \E f \in FaultChoices(2) :
         LET r == CleanupDeleteVectorBucket("vector_bucket", vector_buckets,
                                            vector_indexes, cl_dry_run, f)
         IN  /\ cl_log' = cl_log \o r.calls
             /\ cl_success' = (cl_success /\ r.ret)
             /\ vector_buckets' = r.buckets
    /\ cl_steps' = Append(cl_steps, "vector_bucket")
    /\ cl_pc' = StepAfter("vector_bucket")
    /\ UNCHANGED <<cl_mode, cl_dry_run, cl_index_names, cl_exit_code>>
    /\ UNCHANGED <<vector_indexes, stored_vectors, s3_buckets, s3_objects>>
    /\ UNCHANGED nonClVars

\* main, line 321: sys.exit(0 if success else 1)
MainExit ==
    /\ cl_pc = "return"
    /\ cl_exit_code' = IF cl_success THEN 0 ELSE 1
    /\ cl_pc' = "exit"
    /\ UNCHANGED <<cl_mode, cl_dry_run, cl_index_names, cl_success, cl_steps, cl_log>>
    /\ UNCHANGED svcVars
    /\ UNCHANGED nonClVars

ClNext ==
    \/ MainListOnly
    \/ MainVectorsOnly
    \/ MainObjectsOnly
    \/ CleanupAllStart
    \/ StepDeleteIndexes
    \/ StepDeleteObjects
    \/ StepDeleteObjectBucket
    \/ StepDeleteVectorBucket
    \/ MainExit

\* ------------------------------------------------------------------------
\* mm_index/patterns: PatternEngine.process, HybridPattern, SummarizePattern
\* data is described by what the validations look at: whether it has a
\* 'text' key, whether the text is a string, whether it is blank, its
\* length, and the 'image' entry.  p_calls holds the calls made to the
\* embedding model, the object store and the text LLM, oldest first.
\* ------------------------------------------------------------------------
MaxExtraChars == 1

\* SummarizePattern.__init__: min_text_length
min_text_length == 1000

Entries == {"engine", "pattern", "validate"}

PatternNames == {"hybrid", "summarize"}

TextLengths == {0, 1, min_text_length - 1} \cup
               (min_text_length..(min_text_length + MaxExtraChars))

ImageKinds == {"absent", "valid", "invalid"}

DataValues ==
    {d \in [has_text : BOOLEAN, is_str : BOOLEAN, blank : BOOLEAN,
            len : TextLengths, image : ImageKinds] :
        /\ (~d.has_text) => (d.is_str /\ d.blank /\ d.len = 0)
        /\ (~d.is_str) => ((~d.blank) /\ d.len = 1)
        /\ (d.len = 0) => d.blank}

\* Answers of a collaborator: a result, an empty result, or an exception
Answers == {"ok", "empty", "error"}

\* PatternEngine._register_default_patterns: the patterns registered
Registered(object_store, llm) ==
    (IF object_store THEN {"hybrid"} ELSE {}) \cup
    (IF llm /\ object_store THEN {"summarize"} ELSE {})

\* PatternStrategy._validate_required_keys: both patterns require 'text'
RequiredKeysMissing(d) == ~d.has_text

\* HybridPattern.validate_data
HybridValidateData(d) ==
    IF ~d.has_text THEN FALSE
    ELSE IF (~d.is_str) \/ d.blank THEN FALSE
    ELSE IF d.image = "invalid" THEN FALSE
    ELSE TRUE

\* Mutant of SummarizeValidateData: the minimum-length check is missing
SummarizeValidateData_NoMinLength(d, llm) ==
    IF ~d.has_text THEN FALSE
    ELSE IF ~d.is_str THEN FALSE
    ELSE IF d.blank THEN FALSE
    ELSE llm

\* SummarizePattern.validate_data
SummarizeValidateData(d, llm) ==
    IF ~d.has_text THEN FALSE
    ELSE IF ~d.is_str THEN FALSE
    ELSE IF d.blank THEN FALSE
    ELSE IF d.len < min_text_length THEN FALSE
    ELSE llm

ValidateData(pattern, d, llm) ==
    IF pattern = "hybrid" THEN HybridValidateData(d) ELSE SummarizeValidateData(d, llm)

BoolStr(b) == IF b THEN "True" ELSE "False"

\* An exception leaving pattern.process: PatternEngine.process turns it
\* into a RuntimeError (lines 240-242)
Raised(entry, exc) == IF entry = "engine" THEN "RuntimeError" ELSE exc

PatInit ==
    /\ p_entry \in Entries
    /\ p_pattern \in PatternNames
    /\ p_data \in DataValues
    /\ p_object_store \in BOOLEAN
    /\ p_llm \in BOOLEAN
    /\ p_pc = "call"
    /\ p_validated = "not called"
    /\ p_outcome = "none"
    /\ p_calls = <<>>

PatIdle ==
    /\ p_entry = "engine"
    /\ p_pattern = "hybrid"
    /\ p_data = [has_text |-> FALSE, is_str |-> TRUE, blank |-> TRUE,
                 len |-> 0, image |-> "absent"]
    /\ p_object_store = FALSE
    /\ p_llm = FALSE
    /\ p_pc = "idle"
    /\ p_validated = "not called"
    /\ p_outcome = "none"
    /\ p_calls = <<>>

\* PatternEngine.validate_data_for_pattern
ValidateDataForPattern ==
    /\ p_pc = "call"
    /\ p_entry = "validate"
    /\ IF p_pattern \notin Registered(p_object_store, p_llm)
       THEN /\ p_outcome' = "KeyError"
            /\ UNCHANGED p_validated
       ELSE /\ p_validated' = BoolStr(ValidateData(p_pattern, p_data, p_llm))
            /\ p_outcome' = "returned"
    /\ p_pc' = "done"
    /\ UNCHANGED <<p_entry, p_pattern, p_data, p_object_store, p_llm, p_calls>>
    /\ UNCHANGED svcVars
    /\ UNCHANGED nonPatVars

\* PatternEngine.process, lines 218-226: get_pattern, validate_data
EngineProcess ==
    /\ p_pc = "call"
    /\ p_entry = "engine"
    /\ IF p_pattern \notin Registered(p_object_store, p_llm)
       THEN /\ p_outcome' = "KeyError"
            /\ p_pc' = "done"
            /\ UNCHANGED p_validated
       ELSE LET ok == ValidateData(p_pattern, p_data, p_llm)
            IN  /\ p_validated' = BoolStr(ok)
                /\ p_outcome' = IF ok THEN "none" ELSE "ValueError"
                /\ p_pc' = IF ok THEN "process" ELSE "done"
    /\ UNCHANGED <<p_entry, p_pattern, p_data, p_object_store, p_llm, p_calls>>
    /\ UNCHANGED svcVars
    /\ UNCHANGED nonPatVars

\* pattern.process is entered: from the engine, or called directly
ProcessEntered(pattern) ==
    /\ p_pattern = pattern
    /\ \/ p_pc = "process"
       \/ p_pc = "call" /\ p_entry = "pattern"

\* HybridPattern.process, lines 176-181: the two validations
HybridProcessValidate ==
    /\ ProcessEntered("hybrid")
    /\ IF RequiredKeysMissing(p_data)
       THEN /\ p_outcome' = Raised(p_entry, "ValueError")
            /\ p_pc' = "done"
            /\ UNCHANGED p_validated
       ELSE LET ok == HybridValidateData(p_data)
            IN  /\ p_validated' = BoolStr(ok)
                /\ p_outcome' = IF ok THEN "none" ELSE Raised(p_entry, "ValueError")
                /\ p_pc' = IF ok THEN "h_embed" ELSE "done"
    /\ UNCHANGED <<p_entry, p_pattern, p_data, p_object_store, p_llm, p_calls>>
    /\ UNCHANGED svcVars
    /\ UNCHANGED nonPatVars

\* HybridPattern.process, lines 188-195: the embedding model is called
HybridEmbed ==
    /\ p_pc = "h_embed"
    /\ p_calls' = Append(p_calls, "embedding_model.generate_embeddings")
    /\ \E a \in Answers :
         IF a # "ok"
         THEN /\ p_outcome' = "RuntimeError"
              /\ p_pc' = "done"
         ELSE IF p_data.image = "absent"
         THEN /\ p_outcome' = "returned"
              /\ p_pc' = "done"
         ELSE /\ p_pc' = "h_image"
              /\ UNCHANGED p_outcome
    /\ UNCHANGED <<p_entry, p_pattern, p_data, p_object_store, p_llm, p_validated>>
    /\ UNCHANGED svcVars
    /\ UNCHANGED nonPatVars

\* HybridPattern.process, lines 207-232: the image is stored; a failure
\* to store it is recorded in the metadata and the call returns
HybridStoreImage ==
    /\ p_pc = "h_image"
    /\ p_calls' = IF p_object_store
                  THEN Append(p_calls, "object_store.store_object")
                  ELSE p_calls
    /\ p_outcome' = "returned"
    /\ p_pc' = "done"
    /\ UNCHANGED <<p_entry, p_pattern, p_data, p_object_store, p_llm, p_validated>>
    /\ UNCHANGED svcVars
    /\ UNCHANGED nonPatVars

\* SummarizePattern.process, lines 141-151: no validation; the text LLM
\* is called with data['text'].  A text that is not a string may or may
\* not have a length (line 145).
SummarizeSummary ==
    /\ ProcessEntered("summarize")
    /\ \E a \in Answers, has_len \in BOOLEAN :
         IF (~p_data.has_text) \/ (~p_llm) \/ ((~p_data.is_str) /\ ~has_len)
         THEN /\ p_outcome' = "RuntimeError"
              /\ p_pc' = "done"
              /\ UNCHANGED p_calls
         ELSE /\ p_calls' = Append(p_calls, "llm.generate_summary")
              /\ IF a = "ok"
                 THEN /\ p_pc' = "s_embed"
                      /\ UNCHANGED p_outcome
                 ELSE /\ p_outcome' = "RuntimeError"
                      /\ p_pc' = "done"
    /\ UNCHANGED <<p_entry, p_pattern, p_data, p_object_store, p_llm, p_validated>>
    /\ UNCHANGED svcVars
    /\ UNCHANGED nonPatVars

\* SummarizePattern.process, lines 153-157: the summary is embedded
SummarizeEmbed ==
    /\ p_pc = "s_embed"
    /\ p_calls' = Append(p_calls, "embedding_model.generate_embeddings")
    /\ \E a \in {"ok", "error"} :
         IF a = "ok"
         THEN /\ p_pc' = "s_store"
              /\ UNCHANGED p_outcome
         ELSE /\ p_outcome' = "RuntimeError"
              /\ p_pc' = "done"
    /\ UNCHANGED <<p_entry, p_pattern, p_data, p_object_store, p_llm, p_validated>>
    /\ UNCHANGED svcVars
    /\ UNCHANGED nonPatVars

\* SummarizePattern.process, lines 173-186: the original text is stored;
\* a failure to store it is recorded in the metadata and the call returns
SummarizeStore ==
    /\ p_pc = "s_store"
    /\ p_calls' = IF p_object_store
                  THEN Append(p_calls, "object_store.store_object")
                  ELSE p_calls
    /\ p_outcome' = "returned"
    /\ p_pc' = "done"
    /\ UNCHANGED <<p_entry, p_pattern, p_data, p_object_store, p_llm, p_validated>>
    /\ UNCHANGED svcVars
    /\ UNCHANGED nonPatVars

PatNext ==
    \/ ValidateDataForPattern
    \/ EngineProcess
    \/ HybridProcessValidate
    \/ HybridEmbed
    \/ HybridStoreImage
    \/ SummarizeSummary
    \/ SummarizeEmbed
    \/ SummarizeStore

\* ------------------------------------------------------------------------
\* s3_vector_browser/backend: api_server.py, data_service.py,
\* mock_data_service.py
\* One request is followed from the endpoint to its HTTP status.  br_cond
\* is how the backing service answers the first call of the request.
\* ------------------------------------------------------------------------
\* get_item_metadata: range(3)
SearchAttempts == 3

Endpoints == {"list_buckets", "list_indexes", "list_items", "get_bucket_details",
              "get_index_details", "get_item_details", "query_vectors",
              "delete_bucket", "delete_index", "delete_item", "get_s3_content"}

\* Answers of the backing service: error codes of a ClientError, or a
\* connection failure (not a ClientError)
Conditions == {"none", "AccessDeniedException", "ServiceUnavailableException",
               "NoSuchBucket", "NoSuchIndex", "ThrottlingException",
               "ConnectionError"}

\* startup_event: the data service the server ends up with
StartupService(use_mock, s3vectors_available, force_real, real_fails, mock_fails) ==
    IF use_mock = "true" THEN "mock"
    ELSE IF (~s3vectors_available) /\ ~force_real THEN "mock"
    ELSE IF (~s3vectors_available) /\ force_real THEN "none"
    ELSE IF ~real_fails THEN "real"
    ELSE IF ~mock_fails THEN "mock"
    ELSE "none"

\* S3VectorDataService._handle_client_error: the exception raised
HandleClientError(code) ==
    IF code = "AccessDeniedException" THEN "PermissionDeniedError"
    ELSE IF code = "ServiceUnavailableException" THEN "ServiceUnavailableError"
    ELSE IF code \in {"NoSuchBucket", "NoSuchIndex"} THEN "ResourceNotFoundError"
    ELSE "DataLoadingError"

\* handle_service_error: the HTTP status of an exception
HandleServiceError(exc) ==
    IF exc = "AWSConnectionError" THEN 503
    ELSE IF exc = "ResourceNotFoundError" THEN 404
    ELSE IF exc = "PermissionDeniedError" THEN 403
    ELSE IF exc = "ServiceUnavailableError" THEN 503
    ELSE 500

\* The method of the data service each endpoint calls, and the keyword
\* argument it passes, if any
MethodCalled(endpoint) ==
    CASE endpoint = "list_buckets" -> [name |-> "list_vector_buckets", kw |-> ""]
      [] endpoint = "list_items" -> [name |-> "list_items", kw |-> "max_results"]
      [] endpoint = "get_item_details" -> [name |-> "get_item_metadata", kw |-> ""]
      [] endpoint = "get_s3_content" -> [name |-> "get_s3_object_content", kw |-> ""]
      [] OTHER -> [name |-> endpoint, kw |-> ""]

\* The methods of MockS3VectorDataService and the keywords they accept
MockMethods ==
    {[name |-> "list_buckets", kw |-> ""], [name |-> "list_indexes", kw |-> ""],
     [name |-> "list_items", kw |-> ""], [name |-> "list_items", kw |-> "limit"],
     [name |-> "get_bucket_details", kw |-> ""], [name |-> "get_index_details", kw |-> ""],
     [name |-> "get_item_details", kw |-> ""], [name |-> "query_vectors", kw |-> ""],
     [name |-> "delete_bucket", kw |-> ""], [name |-> "delete_index", kw |-> ""],
     [name |-> "delete_item", kw |-> ""], [name |-> "get_s3_object_content", kw |-> ""]}

\* A method of MockS3VectorDataService called by an endpoint: "ok", or
\* the exception raised.  known: the request names a resource of the
\* mock catalog.
MockResult(endpoint, known) ==
    LET m == MethodCalled(endpoint)
    IN  IF ~\E x \in MockMethods : x.name = m.name THEN "AttributeError"
        ELSE IF m \notin MockMethods THEN "TypeError"
        ELSE IF m.name \in {"get_bucket_details", "get_index_details"} /\ ~known
        THEN "Exception"
        ELSE "ok"

\* A method of S3VectorDataService called by an endpoint, other than
\* get_item_metadata: "ok", or the exception raised
RealResult(endpoint, cond) ==
    LET m == MethodCalled(endpoint).name
    IN  IF m = "query_vectors" THEN "AttributeError"
        ELSE IF cond = "none" THEN "ok"
        ELSE IF m \in {"delete_index", "delete_item"} THEN "ok"
        ELSE IF m = "get_s3_object_content" THEN "Exception"
        ELSE IF m = "delete_bucket" /\ cond = "NoSuchBucket" THEN "ok"
        ELSE IF cond = "ConnectionError"
        THEN IF m \in {"list_vector_buckets", "list_indexes", "list_items"}
             THEN "DataLoadingError" ELSE "EndpointConnectionError"
        ELSE HandleClientError(cond)

\* Endpoints that answer 503 when no data service was initialised
GuardedEndpoints == {"list_buckets", "list_indexes", "list_items",
                     "get_bucket_details", "get_index_details", "get_item_details"}

\* The HTTP status of an endpoint whose data-service call ended with res
EndpointStatus(endpoint, service, res) ==
    IF service = "none"
    THEN IF endpoint \in GuardedEndpoints THEN 503 ELSE 500
    ELSE IF res = "ok" THEN 200
    ELSE IF endpoint = "get_s3_content" THEN 500
    ELSE HandleServiceError(res)

\* Mutant of AttemptsLeft: one more random query is tried
AttemptsLeft_OneMore(attempt) == attempt < SearchAttempts + 1

\* get_item_metadata, line 349: for attempt in range(3)
AttemptsLeft(attempt) == attempt < SearchAttempts

BrInit ==
    /\ br_service = "unset"
    /\ br_endpoint = ""
    /\ br_cond = "none"
    /\ br_known = TRUE
    /\ br_pc = "startup"
    /\ br_calls = <<>>
    /\ br_attempt = 0
    /\ br_status = 0

BrIdle ==
    /\ br_service = "unset"
    /\ br_endpoint = ""
    /\ br_cond = "none"
    /\ br_known = TRUE
    /\ br_pc = "idle"
    /\ br_calls = <<>>
    /\ br_attempt = 0
    /\ br_status = 0

\* startup_event
StartupEvent ==
    /\ br_pc = "startup"
    /\ \E use_mock \in {"true", "auto"}, avail \in BOOLEAN, force \in BOOLEAN,
          rf \in BOOLEAN, mf \in BOOLEAN :
         br_service' = StartupService(use_mock, avail, force, rf, mf)
    /\ br_pc' = "ready"
    /\ UNCHANGED <<br_endpoint, br_cond, br_known, br_calls, br_attempt, br_status>>
    /\ UNCHANGED svcVars
    /\ UNCHANGED nonBrVars

\* A request arrives: endpoint, resource named, state of the service
Request ==
    /\ br_pc = "ready"
    /\ br_endpoint' \in Endpoints
    /\ br_cond' \in IF br_service = "real" THEN Conditions ELSE {"none"}
    /\ br_known' \in BOOLEAN
    /\ br_pc' = "endpoint"
    /\ UNCHANGED <<br_service, br_calls, br_attempt, br_status>>
    /\ UNCHANGED svcVars
    /\ UNCHANGED nonBrVars

\* Every endpoint except get_item_details on the real data service
Endpoint ==
    /\ br_pc = "endpoint"
    /\ ~(br_service = "real" /\ br_endpoint = "get_item_details")
    /\ LET res == IF br_service = "mock" THEN MockResult(br_endpoint, br_known)
                  ELSE RealResult(br_endpoint, br_cond)
       IN  br_status' = EndpointStatus(br_endpoint, br_service, res)
    /\ br_pc' = "done"
    /\ UNCHANGED <<br_service, br_endpoint, br_cond, br_known, br_calls, br_attempt>>
    /\ UNCHANGED svcVars
    /\ UNCHANGED nonBrVars

\* get_item_details -> get_item_metadata, lines 324-338: one listing page
\* (list_items with max_results=30) is read and searched
ItemLookupList ==
    /\ br_pc = "endpoint"
    /\ br_service = "real"
    /\ br_endpoint = "get_item_details"
    /\ br_calls' = Append(br_calls, "list_items")
    /\ LET res == RealResult("list_items", br_cond)
       IN  IF res = "ResourceNotFoundError"
           THEN /\ br_status' = HandleServiceError(res)
                /\ br_pc' = "done"
           ELSE IF res # "ok"
           THEN /\ br_status' = HandleServiceError("DataLoadingError")
                /\ br_pc' = "done"
           ELSE \E in_page \in BOOLEAN :
                  IF in_page /\ br_known
                  THEN /\ br_status' = 200
                       /\ br_pc' = "done"
                  ELSE /\ br_pc' = "extended"
                       /\ UNCHANGED br_status
    /\ UNCHANGED <<br_service, br_endpoint, br_cond, br_known, br_attempt>>
    /\ UNCHANGED svcVars
    /\ UNCHANGED nonBrVars

\* get_item_metadata, lines 342-345: the dimension of the index is read;
\* a failure ends the extended search (line 368) and the item is
\* reported as not found (line 372)
ItemLookupDimension ==
    /\ br_pc = "extended"
    /\ br_calls' = Append(br_calls, "get_index_details")
    /\ \E ok \in BOOLEAN :
         IF ok
         THEN /\ br_pc' = "search"
              /\ UNCHANGED br_status
         ELSE /\ br_status' = HandleServiceError("ResourceNotFoundError")
              /\ br_pc' = "done"
    /\ br_attempt' = 0
    /\ UNCHANGED <<br_service, br_endpoint, br_cond, br_known>>
    /\ UNCHANGED svcVars
    /\ UNCHANGED nonBrVars

\* get_item_metadata, lines 349-366: one random-vector query
ItemLookupSearch ==
    /\ br_pc = "search"
    /\ AttemptsLeft(br_attempt)
    /\ br_calls' = Append(br_calls, "search_vectors")
    /\ \E answer \in {"hit", "miss", "error"} :
         IF answer = "hit" /\ br_known
         THEN /\ br_status' = 200
              /\ br_pc' = "done"
              /\ UNCHANGED br_attempt
         ELSE IF answer = "error"
         THEN /\ br_status' = HandleServiceError("ResourceNotFoundError")
              /\ br_pc' = "done"
              /\ UNCHANGED br_attempt
         ELSE /\ br_attempt' = br_attempt + 1
              /\ UNCHANGED <<br_status, br_pc>>
    /\ UNCHANGED <<br_service, br_endpoint, br_cond, br_known>>
    /\ UNCHANGED svcVars
    /\ UNCHANGED nonBrVars

\* get_item_metadata, line 372: every query missed the item
ItemLookupNotFound ==
    /\ br_pc = "search"
    /\ ~AttemptsLeft(br_attempt)
    /\ br_status' = HandleServiceError("ResourceNotFoundError")
    /\ br_pc' = "done"
    /\ UNCHANGED <<br_service, br_endpoint, br_cond, br_known, br_calls, br_attempt>>
    /\ UNCHANGED svcVars
    /\ UNCHANGED nonBrVars

BrNext ==
    \/ StartupEvent
    \/ Request
    \/ Endpoint
    \/ ItemLookupList
    \/ ItemLookupDimension
    \/ ItemLookupSearch
    \/ ItemLookupNotFound

\* ------------------------------------------------------------------------
\* mm_index/mm_ingestor.py: MMIngestor construction and batch_ingest, with
\* S3VectorStore.create_index and PreprocessorChain.process
\* An index_name is the sequence of its parts around the first '/'.
\* ------------------------------------------------------------------------
MaxDocs == 3

MMIndexNames == {<<"dealer-index">>, <<VectorBucketName, "dealer-index">>}

\* What happens to a document: it passes, its preprocessor raises, or the
\* pattern engine raises
DocKinds == {"ok", "pre_fails", "pattern_fails"}

\* S3VectorStore.create_index: True / False and the service afterwards
StoreCreateIndex(buckets, indexes, name, f1, f2, race, f3) ==
    IF Len(name) < 2
    THEN [ok |-> FALSE, buckets |-> buckets, indexes |-> indexes]
    ELSE LET rb == CreateVectorBucketResult(buckets, name[1], f1, f2, race)
         IN  IF rb.outcome = "raised"
             THEN [ok |-> FALSE, buckets |-> rb.buckets, indexes |-> indexes]
             ELSE LET ri == CreateVectorIndexResult(rb.buckets, indexes,
                                                    name[1], name[2], f3)
                  IN  [ok |-> ri.outcome # "raised", buckets |-> rb.buckets,
                       indexes |-> ri.indexes]

\* config.VECTOR_DIMENSION, the default of s3_vector_ops.create_vector_index
VECTOR_DIMENSION == 384

\* The dimension of the create_index request that S3VectorStore.create_index
\* causes: line 111 passes bucket and index name only, so
\* create_vector_index falls back to the configured default (lines 95-96)
CreateIndexDimension(vector_dimension) == VECTOR_DIMENSION

\* Length of the vector MMIngestor.ingest submits: _prepare_vector_data
\* passes the embedding through dimension_manager.validate_and_transform
PreparedVectorLength(embedding_length, vector_dimension) ==
    Len(ValidateAndTransform(InputVector(embedding_length, 1), vector_dimension))

\* PreprocessorChain.process: the preprocessed document, or RuntimeError
ChainProcess(doc) == IF doc = "pre_fails" THEN "RuntimeError" ELSE doc

\* The vector store accepts vectors for index_name
StoreAccepts(indexes, name) == Len(name) = 2 /\ <<name[1], name[2]>> \in indexes

MMInit ==
    /\ vector_buckets \in SUBSET {VectorBucketName}
    /\ vector_indexes \in SUBSET ({VectorBucketName} \X {"dealer-index"})
    /\ \A x \in vector_indexes : x[1] \in vector_buckets
    /\ stored_vectors = {}
    /\ s3_buckets = {}
    /\ s3_objects = [b \in {ObjectBucketName, VectorBucketName} |-> 0]
    /\ mm_index_name \in MMIndexNames
    /\ mm_data_list \in UNION {[1..n -> DocKinds] : n \in 0..MaxDocs}
    /\ mm_pc = "new"
    /\ mm_processed = <<>>
    /\ mm_ingested = {}
    /\ mm_outcome = "none"
    /\ mm_vector_dimension \in SupportedDimensions
    /\ mm_index_dimension = 0
    /\ mm_submitted = {}

MMIdle ==
    /\ mm_index_name = <<>>
    /\ mm_data_list = <<>>
    /\ mm_pc = "idle"
    /\ mm_processed = <<>>
    /\ mm_ingested = {}
    /\ mm_outcome = "none"
    /\ mm_vector_dimension = 256
    /\ mm_index_dimension = 0
    /\ mm_submitted = {}

\* MMIngestor.__init__ with the components passed in: the last statement
\* calls vector_store.create_index and drops its result
MMIngestorInit ==
    /\ mm_pc = "new"
    /\ \E f1 \in Faults, f2 \in Faults, race \in BOOLEAN, f3 \in Faults :
         LET r == StoreCreateIndex(vector_buckets, vector_indexes, mm_index_name,
                                   f1, f2, race, f3)
         IN  /\ vector_buckets' = r.buckets
             /\ vector_indexes' = r.indexes
             /\ mm_index_dimension' =
                    IF r.indexes # vector_indexes
                    THEN CreateIndexDimension(mm_vector_dimension)
                    ELSE mm_index_dimension
    /\ mm_pc' = "ready"
    /\ UNCHANGED <<stored_vectors, s3_buckets, s3_objects>>
    /\ UNCHANGED <<mm_index_name, mm_data_list, mm_processed, mm_ingested, mm_outcome,
                   mm_vector_dimension, mm_submitted>>
    /\ UNCHANGED nonMMVars

\* batch_ingest, lines 296-299: one iteration of the preprocessing loop
BatchIngestPreprocess ==
    /\ mm_pc = "ready"
    /\ Len(mm_processed) < Len(mm_data_list)
    /\ LET processed_data == ChainProcess(mm_data_list[Len(mm_processed) + 1])
       IN  IF processed_data = "RuntimeError"
           THEN /\ mm_outcome' = "raised"
                /\ mm_pc' = "done"
                /\ UNCHANGED mm_processed
           ELSE /\ mm_processed' = Append(mm_processed, processed_data)
                /\ UNCHANGED <<mm_outcome, mm_pc>>
    /\ UNCHANGED <<mm_index_name, mm_data_list, mm_ingested, mm_vector_dimension,
                   mm_index_dimension, mm_submitted>>
    /\ UNCHANGED svcVars
    /\ UNCHANGED nonMMVars

\* batch_ingest, lines 302-307: the preprocessed list goes to
\* BatchProcessor.process_batch, which raises on an empty list, drops the
\* items whose pattern processing raised and ingests the others
BatchIngestDelegate ==
    /\ mm_pc = "ready"
    /\ Len(mm_processed) = Len(mm_data_list)
    /\ IF mm_processed = <<>>
       THEN /\ mm_outcome' = "raised"
            /\ UNCHANGED <<mm_ingested, mm_submitted>>
       ELSE /\ mm_outcome' = "returned"
            /\ mm_ingested' = IF StoreAccepts(vector_indexes, mm_index_name)
                              THEN {i \in 1..Len(mm_processed) : mm_processed[i] = "ok"}
                              ELSE {}
            /\ mm_submitted' =
                   IF \E i \in 1..Len(mm_processed) : mm_processed[i] = "ok"
                   THEN mm_submitted \cup {mm_vector_dimension}
                   ELSE mm_submitted
    /\ mm_pc' = "done"
    /\ UNCHANGED <<mm_index_name, mm_data_list, mm_processed, mm_vector_dimension,
                   mm_index_dimension>>
    /\ UNCHANGED svcVars
    /\ UNCHANGED nonMMVars

\* ingest(content, metadata, pattern) for one document; the embedding
\* model is the default one, configured with vector_dimension
Ingest ==
    /\ mm_pc = "ready"
    /\ \E doc \in DocKinds :
         IF ChainProcess(doc) = "ok"
         THEN /\ mm_submitted' = mm_submitted
                     \cup {PreparedVectorLength(mm_vector_dimension, mm_vector_dimension)}
              /\ mm_outcome' = IF StoreAccepts(vector_indexes, mm_index_name)
                               THEN "returned" ELSE "raised"
         ELSE /\ mm_outcome' = "raised"
              /\ UNCHANGED mm_submitted
    /\ mm_pc' = "ingested"
    /\ UNCHANGED <<mm_index_name, mm_data_list, mm_processed, mm_ingested,
                   mm_vector_dimension, mm_index_dimension>>
    /\ UNCHANGED svcVars
    /\ UNCHANGED nonMMVars

MMNext ==
    \/ MMIngestorInit
    \/ Ingest
    \/ BatchIngestPreprocess
    \/ BatchIngestDelegate

\* ------------------------------------------------------------------------
\* mm_index/audit/audit_logger.py: AuditLogger performance tracking
\* A correlation id is the position of its operation in au_ops.
\* ------------------------------------------------------------------------
MaxOps == 3

\* Operation names: start_operation takes any name, log_ingestion_start
\* logs 'ingestion', log_batch_start logs 'batch_processing'
OperationNames == {"ingestion", "search", "batch_processing"}

\* get_performance_stats()[operation]['count']; an operation without
\* recorded times has no entry
GetPerformanceStatsCount(times, operation) == times[operation]

AuInit ==
    /\ enable_performance_tracking \in BOOLEAN
    /\ active_operations = {}
    /\ operation_times = [n \in OperationNames |-> 0]
    /\ au_ops = <<>>

AuIdle ==
    /\ enable_performance_tracking = FALSE
    /\ active_operations = {}
    /\ operation_times = [n \in OperationNames |-> 0]
    /\ au_ops = <<>>

\* start_operation(operation_name)
StartOperation ==
    /\ Len(au_ops) < MaxOps
    /\ \E name \in {"ingestion", "search"} :
         au_ops' = Append(au_ops, [name |-> name, via |-> "start_operation",
                                   ended |-> "no"])
    /\ active_operations' = IF enable_performance_tracking
                            THEN active_operations \cup {Len(au_ops) + 1}
                            ELSE active_operations
    /\ UNCHANGED <<enable_performance_tracking, operation_times>>
    /\ UNCHANGED svcVars
    /\ UNCHANGED nonAuVars

\* log_ingestion_start(doc_id, pattern, data_size): a correlation id is
\* generated and returned; active_operations is not touched
LogIngestionStart ==
    /\ Len(au_ops) < MaxOps
    /\ au_ops' = Append(au_ops, [name |-> "ingestion", via |-> "log_ingestion_start",
                                 ended |-> "no"])
    /\ UNCHANGED <<enable_performance_tracking, active_operations, operation_times>>
    /\ UNCHANGED svcVars
    /\ UNCHANGED nonAuVars

\* end_operation(correlation_id, operation_name), as MMIngestor.ingest calls
\* it for the id of log_ingestion_start and as callers of start_operation do
EndOperation ==
    /\ \E cid \in 1..Len(au_ops) :
         /\ au_ops[cid].ended = "no"
         /\ au_ops[cid].via \in {"start_operation", "log_ingestion_start"}
         /\ au_ops' = [au_ops EXCEPT ![cid].ended = "end_operation"]
         /\ IF enable_performance_tracking /\ cid \in active_operations
            THEN /\ active_operations' = active_operations \ {cid}
                 /\ operation_times' = [operation_times EXCEPT ![au_ops[cid].name] = @ + 1]
            ELSE UNCHANGED <<active_operations, operation_times>>
    /\ UNCHANGED enable_performance_tracking
    /\ UNCHANGED svcVars
    /\ UNCHANGED nonAuVars

\* log_batch_start(batch_size, pattern)
LogBatchStart ==
    /\ Len(au_ops) < MaxOps
    /\ au_ops' = Append(au_ops, [name |-> "batch_processing", via |-> "log_batch_start",
                                 ended |-> "no"])
    /\ active_operations' = IF enable_performance_tracking
                            THEN active_operations \cup {Len(au_ops) + 1}
                            ELSE active_operations
    /\ UNCHANGED <<enable_performance_tracking, operation_times>>
    /\ UNCHANGED svcVars
    /\ UNCHANGED nonAuVars

\* log_batch_completion(correlation_id, ..., duration): process_batch
\* (line 111) passes duration; other callers may leave it None
LogBatchCompletion ==
    /\ \E cid \in 1..Len(au_ops), duration \in {"given", "None"} :
         /\ au_ops[cid].ended = "no"
         /\ au_ops[cid].via = "log_batch_start"
         /\ au_ops' = [au_ops EXCEPT ![cid].ended =
                          IF duration = "given" THEN "process_batch" ELSE "completion"]
         /\ active_operations' =
                IF duration = "None" /\ enable_performance_tracking
                   /\ cid \in active_operations
                THEN active_operations \ {cid}
                ELSE active_operations
    /\ UNCHANGED <<enable_performance_tracking, operation_times>>
    /\ UNCHANGED svcVars
    /\ UNCHANGED nonAuVars

\* process_batch raises: its except branch (line 125) calls log_error only
LogError ==
    /\ \E cid \in 1..Len(au_ops) :
         /\ au_ops[cid].ended = "no"
         /\ au_ops[cid].via = "log_batch_start"
         /\ au_ops' = [au_ops EXCEPT ![cid].ended = "process_batch_raised"]
    /\ UNCHANGED <<enable_performance_tracking, active_operations, operation_times>>
    /\ UNCHANGED svcVars
    /\ UNCHANGED nonAuVars

AuNext ==
    \/ StartOperation
    \/ LogIngestionStart
    \/ EndOperation
    \/ LogBatchStart
    \/ LogBatchCompletion
    \/ LogError

\* ------------------------------------------------------------------------
\* data/generate_all_datasets.py: the master dataset generator
\* gen_fails[k]: the k-th generator cannot produce its dataset
\* ------------------------------------------------------------------------
\* main, lines 255-262: the generators in their fixed order
Generators ==
    <<"generate_dealer_database.py", "generate_parts_inventory.py",
      "generate_recall_database.py", "generate_parts_catalog.py",
      "dealer_oem_data_generator.py", "generate_expert_knowledge.py">>

\* Exit code of a generator script: an exception leaves the other scripts
\* with a traceback and code 1; dealer_oem_data_generator.py catches it in
\* main, returns False and ends with code 0 (lines 285-301)
GeneratorExitCode(script, fails) ==
    IF ~fails THEN 0
    ELSE IF script = "dealer_oem_data_generator.py" THEN 0
    ELSE 1

\* run_generator: subprocess.run(..., check=True) raises CalledProcessError
\* on a non-zero exit code
RunGenerator(script, fails) ==
    GeneratorExitCode(script, fails) = 0

GenInit ==
    /\ gen_fails \in [1..Len(Generators) -> BOOLEAN]
    /\ gen_args_ok \in BOOLEAN
    /\ gen_pc = "main"
    /\ gen_invoked = <<>>
    /\ success_count = 0
    /\ gen_reported = 0 - 1

GenIdle ==
    /\ gen_fails = <<>>
    /\ gen_args_ok = FALSE
    /\ gen_pc = "idle"
    /\ gen_invoked = <<>>
    /\ success_count = 0
    /\ gen_reported = 0 - 1

\* main, lines 218-252: counts below 1 or a missing script end the run
GenMainStart ==
    /\ gen_pc = "main"
    /\ gen_pc' = IF gen_args_ok THEN "loop" ELSE "returned"
    /\ UNCHANGED <<gen_fails, gen_args_ok, gen_invoked, success_count, gen_reported>>
    /\ UNCHANGED svcVars
    /\ UNCHANGED nonGenVars

\* main, lines 267-269: one iteration of the loop over the generators
GenLoop ==
    /\ gen_pc = "loop"
    /\ Len(gen_invoked) < Len(Generators)
    /\ LET k == Len(gen_invoked) + 1
           r == RunGenerator(Generators[k], gen_fails[k])
       IN  /\ gen_invoked' = Append(gen_invoked, Generators[k])
           /\ success_count' = IF r THEN success_count + 1 ELSE success_count
    /\ UNCHANGED <<gen_fails, gen_args_ok, gen_pc, gen_reported>>
    /\ UNCHANGED svcVars
    /\ UNCHANGED nonGenVars

\* main, lines 271-280: print_summary reports success_count out of 6
PrintSummary ==
    /\ gen_pc = "loop"
    /\ Len(gen_invoked) = Len(Generators)
    /\ gen_reported' = success_count
    /\ gen_pc' = "returned"
    /\ UNCHANGED <<gen_fails, gen_args_ok, gen_invoked, success_count>>
    /\ UNCHANGED svcVars
    /\ UNCHANGED nonGenVars

GenNext ==
    \/ GenMainStart
    \/ GenLoop
    \/ PrintSummary

\* ------------------------------------------------------------------------
\* aws-notebooklm/utils.py: podcast script and audio files
\* A dialog item of the model response is a sequence of tokens, ":" being
\* the colon character.  Polly is taken to answer every request.
\* ------------------------------------------------------------------------
MaxTurns == 3

host_name == "Amy"

GuestNames == {"Sam"}

\* Items of response_json['dialog']
DialogItems ==
    {<<"Amy", ":", "words">>, <<"Sam", ":", "words">>, <<"Narrator", ":", "words">>,
     <<"Sam", ":", "words", ":", "words">>, <<"words">>}

\* item.find(":"): the 0-based position of the first colon, -1 without one
Find(item) ==
    IF \E p \in 1..Len(item) : item[p] = ":"
    THEN (CHOOSE p \in 1..Len(item) :
              item[p] = ":" /\ \A q \in 1..(p - 1) : item[q] # ":") - 1
    ELSE 0 - 1

\* generate_podcast_script, lines 77-81: speaker = item[:pos], speech =
\* item[pos+1:]; item[:-1] is the item without its last token
ExtractSpeech(item) ==
    LET pos == Find(item)
    IN  [speaker |-> IF pos >= 0 THEN SubSeq(item, 1, pos)
                     ELSE SubSeq(item, 1, Len(item) - 1),
         speech |-> SubSeq(item, pos + 2, Len(item))]

\* generate_audio_files, line 101: the keys of speaker_voice
SpeakerVoiceKeys(guest) == {<<guest>>, <<host_name>>}

PodInit ==
    /\ pod_dialog \in UNION {[1..n -> DialogItems] : n \in 0..MaxTurns}
    /\ guest_name \in GuestNames
    /\ extracted_speech = <<>>
    /\ sounds_files = <<>>
    /\ pod_pc = "response"

PodIdle ==
    /\ pod_dialog = <<>>
    /\ guest_name = ""
    /\ extracted_speech = <<>>
    /\ sounds_files = <<>>
    /\ pod_pc = "idle"

\* generate_podcast_script, lines 72-85: the response was parsed as JSON;
\* every dialog item becomes one turn
GeneratePodcastScript ==
    /\ pod_pc = "response"
    /\ extracted_speech' = [k \in 1..Len(pod_dialog) |-> ExtractSpeech(pod_dialog[k])]
    /\ pod_pc' = "parsed"
    /\ UNCHANGED <<pod_dialog, guest_name, sounds_files>>
    /\ UNCHANGED svcVars
    /\ UNCHANGED nonPodVars

\* generate_audio_files, lines 103-105: one iteration of the loop; the
\* lookup speaker_voice[af['speaker']] raises KeyError for any other speaker
GenerateAudioFile ==
    /\ pod_pc = "parsed"
    /\ Len(sounds_files) < Len(extracted_speech)
    /\ LET i == Len(sounds_files)
       IN  IF extracted_speech[i + 1].speaker \in SpeakerVoiceKeys(guest_name)
           THEN /\ sounds_files' = Append(sounds_files, i)
                /\ UNCHANGED pod_pc
           ELSE /\ pod_pc' = "raised"
                /\ UNCHANGED sounds_files
    /\ UNCHANGED <<pod_dialog, guest_name, extracted_speech>>
    /\ UNCHANGED svcVars
    /\ UNCHANGED nonPodVars

\* generate_audio_files, line 115: the loop is over
GenerateAudioFilesReturn ==
    /\ pod_pc = "parsed"
    /\ Len(sounds_files) = Len(extracted_speech)
    /\ pod_pc' = "returned"
    /\ UNCHANGED <<pod_dialog, guest_name, extracted_speech, sounds_files>>
    /\ UNCHANGED svcVars
    /\ UNCHANGED nonPodVars

PodNext ==
    \/ GeneratePodcastScript
    \/ GenerateAudioFile
    \/ GenerateAudioFilesReturn

\* ------------------------------------------------------------------------
\* Specifications
\* ------------------------------------------------------------------------
InitBatch == BatchInit /\ MetaIdle /\ DimIdle /\ SvcIdle /\ OpsIdle /\ IngIdle /\ ClIdle /\ PatIdle /\ BrIdle /\ MMIdle /\ AuIdle /\ GenIdle /\ PodIdle
SpecBatch == InitBatch /\ [][BatchNext]_vars

InitMeta == MetaInit /\ BatchIdle /\ DimIdle /\ SvcIdle /\ OpsIdle /\ IngIdle /\ ClIdle /\ PatIdle /\ BrIdle /\ MMIdle /\ AuIdle /\ GenIdle /\ PodIdle
SpecMeta == InitMeta /\ [][MetaNext]_vars

InitDim == DimInit /\ BatchIdle /\ MetaIdle /\ SvcIdle /\ OpsIdle /\ IngIdle /\ ClIdle /\ PatIdle /\ BrIdle /\ MMIdle /\ AuIdle /\ GenIdle /\ PodIdle
SpecDim == InitDim /\ [][DimNext]_vars

InitOps == OpsInit /\ BatchIdle /\ MetaIdle /\ DimIdle /\ IngIdle /\ ClIdle /\ PatIdle /\ BrIdle /\ MMIdle /\ AuIdle /\ GenIdle /\ PodIdle
SpecOps == InitOps /\ [][OpsNext]_vars

InitIng == IngInit /\ BatchIdle /\ MetaIdle /\ DimIdle /\ OpsIdle /\ ClIdle /\ PatIdle /\ BrIdle /\ MMIdle /\ AuIdle /\ GenIdle /\ PodIdle
SpecIng == InitIng /\ [][IngNext]_vars

InitCleanup == ClInit /\ BatchIdle /\ MetaIdle /\ DimIdle /\ OpsIdle /\ IngIdle /\ PatIdle /\ BrIdle /\ MMIdle /\ AuIdle /\ GenIdle /\ PodIdle
SpecCleanup == InitCleanup /\ [][ClNext]_vars

InitPattern == PatInit /\ SvcIdle /\ BatchIdle /\ MetaIdle /\ DimIdle /\ OpsIdle /\ IngIdle /\ ClIdle /\ BrIdle /\ MMIdle /\ AuIdle /\ GenIdle /\ PodIdle
SpecPattern == InitPattern /\ [][PatNext]_vars

InitBrowser == BrInit /\ SvcIdle /\ BatchIdle /\ MetaIdle /\ DimIdle /\ OpsIdle /\ IngIdle /\ ClIdle /\ PatIdle /\ MMIdle /\ AuIdle /\ GenIdle /\ PodIdle
SpecBrowser == InitBrowser /\ [][BrNext]_vars

InitIngestor == MMInit /\ BatchIdle /\ MetaIdle /\ DimIdle /\ OpsIdle /\ IngIdle /\ ClIdle /\ PatIdle /\ BrIdle /\ AuIdle /\ GenIdle /\ PodIdle
SpecIngestor == InitIngestor /\ [][MMNext]_vars

InitAudit == AuInit /\ SvcIdle /\ BatchIdle /\ MetaIdle /\ DimIdle /\ OpsIdle /\ IngIdle /\ ClIdle /\ PatIdle /\ BrIdle /\ MMIdle /\ GenIdle /\ PodIdle
SpecAudit == InitAudit /\ [][AuNext]_vars

InitGen == GenInit /\ SvcIdle /\ BatchIdle /\ MetaIdle /\ DimIdle /\ OpsIdle /\ IngIdle /\ ClIdle /\ PatIdle /\ BrIdle /\ MMIdle /\ AuIdle /\ PodIdle
SpecGen == InitGen /\ [][GenNext]_vars

InitPodcast == PodInit /\ SvcIdle /\ BatchIdle /\ MetaIdle /\ DimIdle /\ OpsIdle /\ IngIdle /\ ClIdle /\ PatIdle /\ BrIdle /\ MMIdle /\ AuIdle /\ GenIdle
SpecPodcast == InitPodcast /\ [][PodNext]_vars

\* ------------------------------------------------------------------------
\* Claims
\* ------------------------------------------------------------------------
\* Every vector-store ingestion call of the batch succeeded in full
AllIngestionsFull ==
    \A k \in 1..Len(store_log) : store_log[k].resp = store_log[k].submitted

\* C1: when process_batch has run over N records of which exactly K raise
\* during per-item processing, and every ingestion call succeeded in full,
\* successful_items + failed_items = N and successful_items = N - K.
C1_BatchAccounting ==
    (b_pc = "done" /\ AllIngestionsFull) =>
        /\ successful_items + failed_items = Len(data_list)
        /\ successful_items = Len(data_list) - CountOf(data_list, TRUE)

\* Total serialized size of a mapping: the UTF-8 bytes of str(value), summed
\* over its values
RECURSIVE TotalValueBytes(_)
TotalValueBytes(d) ==
    IF d = <<>> THEN 0 ELSE Utf8Len(d[1].value) + TotalValueBytes(Tail(d))

\* The priority tags listed before position j that limit_metadata returned
PriorityBefore(j) ==
    { i \in 1..(j - 1) : HasKey(m_result, priority_tags[i]) }

RECURSIVE SumBytesOf(_, _)
SumBytesOf(d, idxs) ==
    IF idxs = {} THEN 0
    ELSE LET i == CHOOSE x \in idxs : TRUE
         IN  Utf8Len(Get(d, priority_tags[i])) + SumBytesOf(d, idxs \ {i})

\* C2 as stated: for an input with more tags than max_tags, every priority
\* tag of the input whose value alone fits the byte budget is in the result.
C2_Original ==
    (m_pc = "done" /\ Len(m_metadata) > max_tags) =>
        \A j \in 1..Len(priority_tags) :
            (/\ HasKey(m_metadata, priority_tags[j])
             /\ Utf8Len(Get(m_metadata, priority_tags[j])) <= max_value_bytes)
            => HasKey(m_result, priority_tags[j])

\* C2 amended: a priority tag of the input is in the result, with its value
\* unchanged, whenever fewer than max_tags priority tags listed before it
\* were included and its value fits in the byte budget left by those tags.
C2_PriorityTagsThatFit ==
    (m_pc = "done") =>
        \A j \in 1..Len(priority_tags) :
            (/\ HasKey(m_metadata, priority_tags[j])
             /\ Cardinality(PriorityBefore(j)) < max_tags
             /\ SumBytesOf(m_result, PriorityBefore(j))
                  + Utf8Len(Get(m_metadata, priority_tags[j])) <= max_value_bytes)
            => /\ HasKey(m_result, priority_tags[j])
               /\ Get(m_result, priority_tags[j]) = Get(m_metadata, priority_tags[j])

\* C2 witness: an input with more tags than max_tags whose second priority
\* tag fits after the first and is returned
C2_Witness ==
    /\ m_pc = "done"
    /\ Len(m_metadata) > max_tags
    /\ HasKey(m_result, "damage_id")
    /\ HasKey(m_result, "vehicle_make")
    /\ Get(m_result, "vehicle_make") = Get(m_metadata, "vehicle_make")
    /\ Len(m_result) < Len(m_metadata)

\* C3: the total serialized byte size of the mapping limit_metadata returns
\* never exceeds max_value_bytes.
C3_WithinByteBudget ==
    (m_pc = "done") => TotalValueBytes(m_result) <= max_value_bytes

\* C3 witness: a value was truncated to make the result fit
C3_Witness ==
    /\ m_pc = "done"
    /\ TotalValueBytes(m_metadata) > max_value_bytes
    /\ \E i \in 1..Len(m_result) :
         /\ m_result[i].value # Get(m_metadata, m_result[i].key)
         /\ Utf8Len(m_result[i].value) > 3

\* C4 as stated: the result has length D; for L > D the vector is truncated
\* from the front (its leading L - D elements are cut off), for L < D it is
\* zero-padded at the end.
C4_Original ==
    (d_pc = "done") =>
        LET L == Len(d_vector)
            D == target_dimension
        IN  /\ Len(d_result) = D
            /\ (L > D) => \A i \in 1..D : d_result[i] = Float32(d_vector[L - D + i])
            /\ (L < D) => \A i \in 1..D :
                 d_result[i] = IF i <= L THEN Float32(d_vector[i]) ELSE 0
            /\ (L = D) => Len(d_result) = L

\* C4 amended: the result has length D; for L > D it is the first D
\* elements of the input (the trailing L - D elements are cut off), for
\* L < D the input followed by D - L zeros, for L = D the input, every
\* element cast to float32.
C4_LengthNormalized ==
    (d_pc = "done") =>
        LET L == Len(d_vector)
            D == target_dimension
        IN  /\ Len(d_result) = D
            /\ (L > D) => \A i \in 1..D : d_result[i] = Float32(d_vector[i])
            /\ (L < D) => \A i \in 1..D :
                 d_result[i] = IF i <= L THEN Float32(d_vector[i]) ELSE 0
            /\ (L = D) => \A i \in 1..D : d_result[i] = Float32(d_vector[i])

\* C4 witness: a vector longer than the 384 target was cut to its first 384
\* elements
C4_Witness ==
    /\ d_pc = "done"
    /\ target_dimension = 384
    /\ Len(d_vector) > 384
    /\ Len(d_result) = 384
    /\ d_result[384] = Float32(d_vector[384])
    /\ d_result[1] # d_vector[Len(d_vector) - 383]

\* C5: a create_vector_bucket or create_vector_index call whose target
\* already exists returns without raising, whatever calls came before it
\* (the service answering the call according to its state).
C5_CreateIdempotent ==
    \A k \in 1..Len(o_history) :
        (/\ o_history[k].op \in {"create_vector_bucket", "create_vector_index"}
         /\ o_history[k].existed
         /\ ~o_history[k].faulted)
        => o_history[k].outcome = "returned"

\* C5 witness: the same index was created three times in a row; the second
\* and third call found it existing and returned
C5_Witness ==
    /\ Len(o_history) = 3
    /\ \A k \in 1..3 : /\ o_history[k].op = "create_vector_index"
                       /\ o_history[k].target = "dealer-index"
                       /\ o_history[k].outcome = "returned"
    /\ ~o_history[1].existed
    /\ o_history[2].existed
    /\ o_history[3].existed
    /\ <<VectorBucketName, "dealer-index">> \in vector_indexes

\* Some record of the input has more metadata tags than MAX_METADATA_TAGS
SomeRecordExceeds ==
    \E k \in 1..Len(ing_vector_data) : ing_vector_data[k].tags > MAX_METADATA_TAGS

\* The first record of the input with more tags than MAX_METADATA_TAGS
FirstExceeding ==
    CHOOSE k \in 1..Len(ing_vector_data) :
        /\ ing_vector_data[k].tags > MAX_METADATA_TAGS
        /\ \A j \in 1..(k - 1) : ing_vector_data[j].tags <= MAX_METADATA_TAGS

\* ing_error is the metadata-limit-exceeded error for record k
NamesRecord(k) ==
    /\ ing_error.type = "MetadataLimitExceededError"
    /\ ing_error.vector_id = ing_vector_data[k].id
    /\ ing_error.actual_count = ing_vector_data[k].tags
    /\ ing_error.max_allowed = MAX_METADATA_TAGS

\* C8 as stated: if any record exceeds the maximum, no put_vectors request
\* is ever issued and the call fails with a metadata-limit-exceeded error
\* naming the vector id, actual count and limit.
C8_Original ==
    SomeRecordExceeds =>
        /\ put_log = <<>>
        /\ (ing_pc # "call") => (ing_pc = "raised" /\ NamesRecord(FirstExceeding))

\* C8 amended: if any record exceeds the maximum, no put_vectors request is
\* ever issued and the call fails during validation: with a
\* metadata-limit-exceeded error naming the id, actual count and limit of
\* the first such record, or with a TypeError when a record before it has
\* metadata that is not a dictionary.
C8_ValidatedBeforePut ==
    SomeRecordExceeds =>
        /\ put_log = <<>>
        /\ (ing_pc # "call") =>
              /\ ing_pc = "raised"
              /\ IF \E j \in 1..(FirstExceeding - 1) : ing_vector_data[j].tags = NotADict
                 THEN ing_error.type = "TypeError"
                 ELSE NamesRecord(FirstExceeding)

\* C8 witness: the third record, alone in the second batch, exceeds the
\* maximum; the call raised naming it and nothing was sent
C8_Witness ==
    /\ ing_pc = "raised"
    /\ Len(ing_vector_data) = 3
    /\ ing_batch_size = 2
    /\ ing_vector_data[1].tags = MAX_METADATA_TAGS
    /\ ing_vector_data[3].tags = MAX_METADATA_TAGS + 1
    /\ NamesRecord(3)
    /\ put_log = <<>>

\* Operations that delete something at a service
DeleteOps == {"delete_index", "delete_objects", "delete_bucket", "delete_vector_bucket"}

\* C6: with --dry-run no delete request is sent to any service, whatever
\* the mode and whether or not index names are given.
C6_DryRunNoDeletes ==
    cl_dry_run => \A i \in 1..Len(cl_log) : cl_log[i].op \notin DeleteOps

\* C6 witness: a finished full dry run that discovered indexes and objects
C6_Witness ==
    /\ cl_dry_run
    /\ cl_mode = "full"
    /\ cl_pc = "exit"
    /\ \E i \in 1..Len(cl_log) : cl_log[i].op = "list_indexes" /\ cl_log[i].code = "ok"
    /\ \E i \in 1..Len(cl_log) : cl_log[i].op = "list_objects_v2" /\ cl_log[i].code = "ok"
    /\ vector_indexes # {}
    /\ s3_objects[ObjectBucketName] > 0

FullOrder == <<"indexes", "objects", "object_bucket", "vector_bucket">>

StepRank(step) == CHOOSE k \in 1..Len(FullOrder) : FullOrder[k] = step

\* The operations each step of the full cleanup may request
StepOps(step) ==
    CASE step = "indexes" -> {"get_vector_bucket", "list_indexes", "delete_index"}
      [] step = "objects" -> {"list_objects_v2", "delete_objects"}
      [] step = "object_bucket" -> {"head_bucket", "list_objects_v2", "delete_bucket"}
      [] OTHER -> {"get_vector_bucket", "delete_vector_bucket"}

\* C9: the full cleanup runs its four steps in the order indexes, objects
\* of the object bucket, object bucket, vector bucket: every step is run,
\* and every request of a step is sent before any request of a later step.
C9_FullCleanupOrder ==
    cl_mode = "full" =>
        /\ Len(cl_steps) <= Len(FullOrder)
        /\ cl_steps = SubSeq(FullOrder, 1, Len(cl_steps))
        /\ cl_pc \in {"return", "exit"} => cl_steps = FullOrder
        /\ \A i \in 1..Len(cl_log) :
              /\ cl_log[i].step \in {FullOrder[k] : k \in 1..Len(cl_steps)}
              /\ cl_log[i].op \in StepOps(cl_log[i].step)
              /\ cl_log[i].step \in {"objects", "object_bucket"}
                    => cl_log[i].target = ObjectBucketName
        /\ \A i, j \in 1..Len(cl_log) :
              i < j => StepRank(cl_log[i].step) <= StepRank(cl_log[j].step)

\* Some request with operation op was answered ok
Requested(op) ==
    \E i \in 1..Len(cl_log) : cl_log[i].op = op /\ cl_log[i].code = "ok"

\* C9 witness: a full cleanup that deleted an index, objects, the object
\* bucket and the vector bucket
C9_Witness ==
    /\ cl_mode = "full"
    /\ cl_pc = "exit"
    /\ cl_exit_code = 0
    /\ Requested("delete_index")
    /\ Requested("delete_objects")
    /\ Requested("delete_bucket")
    /\ Requested("delete_vector_bucket")

\* Answers that report no failure: success, or the resource being absent
NoFailureCodes == {"ok", "NoSuchBucket", "404", "NoSuchIndex"}

\* C10: the exit code is 0 only if every step in the requested scope
\* succeeded: after a deleting run that exits 0, no request of any step
\* was answered with a failure.
C10_ExitCodeReflectsSteps ==
    (cl_mode # "list_only" /\ cl_exit_code = 0) =>
        \A i \in 1..Len(cl_log) : cl_log[i].code \in NoFailureCodes

\* The pattern named in the call exists where it is invoked
PatternInvokable ==
    p_entry = "pattern" \/ p_pattern \in Registered(p_object_store, p_llm)

\* The summarize data holds a text shorter than min_text_length
TextIsShort == p_data.has_text /\ p_data.is_str /\ p_data.len < min_text_length

LlmInvoked == \E i \in 1..Len(p_calls) : p_calls[i] = "llm.generate_summary"

\* C7: the hybrid pattern invoked on data without a 'text' key, through
\* the engine or directly, raises ValueError and no embedding-model or
\* object-store call is ever made; summarize data whose text is shorter
\* than 1000 characters is never accepted by validate_data, and validating
\* it or processing it through the engine ends in a rejection with the
\* text LLM never invoked.
C7_ValidationBeforeExternalCalls ==
    /\ (p_pattern = "hybrid" /\ p_entry # "validate" /\ PatternInvokable
            /\ ~p_data.has_text) =>
          /\ p_calls = <<>>
          /\ p_pc \in {"call", "done"}
          /\ p_pc = "done" => p_outcome = "ValueError"
    /\ (p_pattern = "summarize" /\ TextIsShort) =>
          /\ p_validated # "True"
          /\ (p_entry # "pattern" /\ PatternInvokable) =>
                /\ ~LlmInvoked
                /\ p_pc \in {"call", "done"}
                /\ p_pc = "done" => p_validated = "False"
                /\ (p_pc = "done" /\ p_entry = "engine") => p_outcome = "ValueError"

\* C7 witness: the engine rejected non-blank summarize text of 999
\* characters with the LLM available and never called
C7_Witness ==
    /\ p_pattern = "summarize"
    /\ p_entry = "engine"
    /\ p_llm
    /\ p_data.has_text /\ p_data.is_str /\ ~p_data.blank
    /\ p_data.len = min_text_length - 1
    /\ p_pc = "done"
    /\ p_outcome = "ValueError"
    /\ p_calls = <<>>

\* The delete operations of the vector-store operations library
LibDeleteOps == {"delete_vectors", "delete_index", "delete_vector_bucket"}

\* C11: delete_vectors, delete_index and delete_vector_bucket report
\* success whenever the targeted resource is already absent and the
\* service call was not otherwise refused.
C11_DeleteIdempotent ==
    \A k \in 1..Len(o_history) :
        (/\ o_history[k].op \in LibDeleteOps
         /\ ~o_history[k].existed
         /\ ~o_history[k].faulted)
        => o_history[k].outcome \in {"True", "deleted"}

\* C12: a call of the library that the service answers with an error
\* other than a not-found condition raises to its caller.
C12_ErrorsPropagate ==
    \A k \in 1..Len(o_history) :
        o_history[k].faulted => o_history[k].outcome = "raised"

\* C13: on the real data service every endpoint answers access denied
\* with 403, not found with 404, service unavailable or a connection
\* failure with 503 and any other error with 500.
C13_ErrorStatusMapping ==
    (br_pc = "done" /\ br_service = "real" /\ br_cond # "none") =>
        br_status = CASE br_cond = "AccessDeniedException" -> 403
                      [] br_cond \in {"NoSuchBucket", "NoSuchIndex"} -> 404
                      [] br_cond \in {"ServiceUnavailableException", "ConnectionError"} -> 503
                      [] OTHER -> 500

\* C14: on the mock data service the endpoints list buckets, list
\* indexes, list items and item details answer 200.
C14_MockEndpointsSucceed ==
    (/\ br_pc = "done"
     /\ br_service = "mock"
     /\ br_known
     /\ br_endpoint \in {"list_buckets", "list_indexes", "list_items", "get_item_details"})
    => br_status = 200

CountCalls(op) == Cardinality({i \in 1..Len(br_calls) : br_calls[i] = op})

\* C15: an item-detail lookup on a listing that could be read reads one
\* listing page, sends at most 3 random-vector queries, stops at the
\* first query that holds the item, and otherwise ends with 404.
C15_ItemLookupBounded ==
    (br_service = "real" /\ br_endpoint = "get_item_details") =>
        /\ CountCalls("list_items") <= 1
        /\ CountCalls("search_vectors") <= SearchAttempts
        /\ br_pc \in {"extended", "search", "done"} => CountCalls("list_items") = 1
        /\ (br_pc = "done" /\ br_cond = "none") => br_status \in {200, 404}
        /\ (br_pc = "done" /\ br_cond = "none" /\ ~br_known) => br_status = 404
        /\ (br_pc = "done" /\ br_status = 200 /\ CountCalls("search_vectors") > 0)
              => br_calls[Len(br_calls)] = "search_vectors"
        /\ (br_pc = "done" /\ br_status = 200) => br_attempt < SearchAttempts

\* C15 witness: the item was in no listing page and in none of the three
\* queries; the lookup ended with 404
C15_Witness ==
    /\ br_service = "real"
    /\ br_endpoint = "get_item_details"
    /\ br_pc = "done"
    /\ br_status = 404
    /\ br_calls = <<"list_items", "get_index_details", "search_vectors",
                    "search_vectors", "search_vectors">>

\* C16: process_batch returns one document id per input record, the i-th
\* id being the id generated for the i-th input, whether the item failed
\* or not, however the list was chunked and in whatever order the workers
\* finished.
C16_DocIdsInSubmissionOrder ==
    b_pc = "done" =>
        /\ Len(all_doc_ids) = Len(data_list)
        /\ Len(item_metadata) = Len(data_list)
        /\ \A i \in 1..Len(data_list) :
              \E m \in 1..Len(item_metadata) :
                  /\ item_metadata[m].batch_index = i - 1
                  /\ item_metadata[m].doc_id = all_doc_ids[i]
        /\ \A i, j \in 1..Len(all_doc_ids) : i # j => all_doc_ids[i] # all_doc_ids[j]

\* C16 witness: a batch of several chunks went through the pool, an item
\* failed, and the ids were returned
C16_Witness ==
    /\ b_pc = "done"
    /\ enable_parallel
    /\ batch_size = 2
    /\ Len(data_list) = 4
    /\ data_list[2]
    /\ Len(all_doc_ids) = 4

\* C17: in the parallel path no future holds an exception, every item of
\* the chunk ends with the result of its own processing, and every item
\* that did not fail is submitted for ingestion.
C17_WorkerFailuresContained ==
    /\ \A k \in 1..Len(futures) :
          /\ futures[k] \in {"queued", "running", "vec", "none"}
          /\ futures[k] = "none" => data_list[chunk_i + k]
          /\ futures[k] = "vec" => ~data_list[chunk_i + k]
    /\ \A e \in 1..Len(store_log) :
          store_log[e].path = "par" =>
              store_log[e].submitted =
                  CountOf(ChunkAt(data_list, store_log[e].offset, batch_size), FALSE)
    /\ b_pc = "done" =>
          \A i \in 1..Len(data_list) :
              (enable_parallel /\ batch_size > 1 /\ ~data_list[i]
               /\ Len(ChunkAt(data_list, ((i - 1) \div batch_size) * batch_size, batch_size)) > 1)
              => \E e \in 1..Len(store_log) :
                     /\ store_log[e].path = "par"
                     /\ store_log[e].offset = ((i - 1) \div batch_size) * batch_size

\* C17 witness: a worker's item failed and the other items of its chunk
\* were ingested
C17_Witness ==
    /\ b_pc = "done"
    /\ \E e \in 1..Len(store_log) :
          /\ store_log[e].path = "par"
          /\ store_log[e].submitted < store_log[e].size
          /\ store_log[e].resp = store_log[e].submitted

\* C18: a chunk whose ingestion raised or reported zero successful
\* ingestions adds its full size to failed_items and nothing to
\* successful_items, in the sequential and in the parallel path.
C18_FailedChunkAllFailed ==
    \A e \in 1..Len(store_log) :
        store_log[e].resp \in {StoreRaises, 0} =>
            /\ store_log[e].failed = store_log[e].size
            /\ store_log[e].ok = 0

\* C19: batch_ingest on a non-empty list returns normally whatever happens
\* to single documents; the documents that failed are not ingested and,
\* when the store accepts vectors, every other document is.
C19_ItemFailureKeepsBatch ==
    (mm_pc = "done" /\ mm_data_list # <<>>) =>
        /\ mm_outcome = "returned"
        /\ \A i \in mm_ingested : mm_data_list[i] = "ok"
        /\ StoreAccepts(vector_indexes, mm_index_name) =>
               mm_ingested = {i \in 1..Len(mm_data_list) : mm_data_list[i] = "ok"}

\* C20: once the MMIngestor constructor has returned, the index named
\* index_name exists in the vector store.
C20_IndexExistsAfterInit ==
    mm_pc = "ready" => StoreAccepts(vector_indexes, mm_index_name)

\* C24: when index names are given, every delete_index request names one
\* of them, in every mode that deletes indexes.
C24_OnlyNamedIndexesDeleted ==
    cl_index_names # <<>> =>
        \A i \in 1..Len(cl_log) :
            cl_log[i].op = "delete_index" =>
                \E k \in 1..Len(cl_index_names) : cl_index_names[k] = cl_log[i].target

\* C26: without --dry-run, when the objects-only run reports success (both
\* delete_s3_objects calls returned True), neither bucket holds an object.
C26_SuccessMeansEmpty ==
    (/\ cl_mode = "objects_only"
     /\ ~cl_dry_run
     /\ cl_pc \in {"return", "exit"}
     /\ cl_success)
    => \A b \in {ObjectBucketName, VectorBucketName} : s3_objects[b] = 0

\* C18 witness: a batch with a parallel chunk whose ingestion reported
\* zero successful ingestions and a sequential chunk whose ingestion did
C18_Witness ==
    /\ b_pc = "done"
    /\ \E e \in 1..Len(store_log) :
          store_log[e].path = "seq" /\ store_log[e].resp = 0
    /\ \E e \in 1..Len(store_log) :
          store_log[e].path = "par" /\ store_log[e].resp = 0 /\ store_log[e].submitted > 1

\* C27: for every ingested chunk, the counts it contributed are the counts
\* the sequential path returns and the counts the parallel path returns for
\* the same items, the same item outcomes and the same store response.
C27_ChunkPathsAgree ==
    \A e \in 1..Len(store_log) :
        LET chunk == ChunkAt(data_list, store_log[e].offset, batch_size)
            results == [k \in 1..Len(chunk) |-> ProcessSingleItem(chunk[k])]
        IN  /\ <<store_log[e].ok, store_log[e].failed>>
                   = SeqChunkCounts(chunk, store_log[e].resp)
            /\ <<store_log[e].ok, store_log[e].failed>>
                   = ParChunkCounts(results, store_log[e].resp)

\* C29: on the real data service a DELETE endpoint answers 200 only when
\* the backing service carried the deletion out or reported the resource
\* as absent.
C29_DeleteSuccessIsReal ==
    (/\ br_pc = "done"
     /\ br_service = "real"
     /\ br_endpoint \in {"delete_bucket", "delete_index", "delete_item"}
     /\ br_status = 200)
    => br_cond \in {"none", "NoSuchBucket", "NoSuchIndex"}

\* C21: with performance tracking enabled, the count reported for an
\* operation name equals the number of operations of that name that have
\* ended, however they were started.
C21_StatsCountEnded ==
    enable_performance_tracking =>
        \A n \in OperationNames :
            GetPerformanceStatsCount(operation_times, n)
                = Cardinality({cid \in 1..Len(au_ops) :
                                  au_ops[cid].name = n /\ au_ops[cid].ended # "no"})

\* C28: once process_batch has returned or raised, the correlation id of
\* its batch is no longer in active_operations.
C28_BatchIdRemoved ==
    \A cid \in 1..Len(au_ops) :
        au_ops[cid].ended \in {"process_batch", "process_batch_raised"}
            => cid \notin active_operations

\* C22: a run that starts generating invokes all six generators in the
\* fixed order whatever fails, and the count it reports out of 6 is the
\* number of generators that did not fail.
C22_GeneratorFailuresNonFatal ==
    /\ gen_invoked = SubSeq(Generators, 1, Len(gen_invoked))
    /\ (gen_pc = "returned" /\ gen_args_ok) =>
          /\ gen_invoked = Generators
          /\ gen_reported = Cardinality({k \in 1..Len(Generators) : ~gen_fails[k]})

\* C23: once a parsed response has gone through generate_audio_files, the
\* number of audio files equals the number of dialogue turns.
C23_AudioFilePerTurn ==
    pod_pc \in {"returned", "raised"} => Len(sounds_files) = Len(pod_dialog)

\* C25: every vector MMIngestor submits to the vector store has the length
\* of the dimension with which MMIngestor created its index.
C25_VectorLengthIsIndexDimension ==
    mm_index_dimension # 0 => \A n \in mm_submitted : n = mm_index_dimension

\* C30: when add_texts returns normally, every document id it returns
\* refers to a record present in the index.
C30_ReturnedIdsAreStored ==
    add_texts_out.status = "returned" =>
        \A k \in 1..Len(add_texts_out.doc_ids) :
            <<IngIndex, add_texts_out.doc_ids[k]>> \in stored_vectors

====
